---- MODULE Spec2Model ----
(***************************************************************************)
(* Model of the chess server.  Spec is the game core: Board (board.rs),     *)
(* MoveValidator (rules.rs) and GameState (game_state.rs), a game played   *)
(* by two seated players through the operations of GameState.  NetSpec is  *)
(* the server around it: connections (client.rs), sessions (session.rs),  *)
(* players (player/mod.rs) and the message handlers (server.rs).           *)
(* SessionSpec is the SessionManager on its own, with the clock its         *)
(* timeouts and token buckets read.  PumpSpec is the pair of tasks of each  *)
(* client (client.rs) with the channel between them, and the broadcast.     *)
(* SeatSpec is add_player and remove_player on one game.  ServerSpec is     *)
(* ChessServer::start with its accept loop and cleanup loops, and stop.     *)
(* PlayerSpec is the rating and matchmaking part of the PlayerManager.      *)
(***************************************************************************)
EXTENDS Integers, Sequences, FiniteSets, TLC

VARIABLES board, result, move_history, position_history,
          white_player, black_player, last_call

\* ClientManager, Client, PlayerManager, SessionManager, GameManager,
\* ServerStatistics and the spawned fan-out tasks
VARIABLES clients, client_info, client_session, player_clients, session_clients,
          registered, current_games, sessions, player_sessions,
          games, player_games, statistics, outbound, tasks, received

\* SessionManager.ip_sessions, the clock current_timestamp reads, the calls made
\* on the session manager, and the state of each client's writing task
VARIABLES ip_sessions, now, calls, writer, reader, server, player_stats

game_vars == <<board, result, move_history, position_history,
               white_player, black_player, last_call>>

net_vars == <<clients, client_info, client_session, player_clients, session_clients,
              registered, current_games, sessions, player_sessions,
              games, player_games, statistics, outbound, tasks, received,
              ip_sessions, now, calls, writer, reader, server, player_stats>>

net_vars_but_server ==
    <<clients, client_info, client_session, player_clients, session_clients,
      registered, current_games, sessions, player_sessions,
      games, player_games, statistics, outbound, tasks, received,
      ip_sessions, now, calls, writer, reader, player_stats>>

vars == <<board, result, move_history, position_history,
          white_player, black_player, last_call,
          clients, client_info, client_session, player_clients, session_clients,
          registered, current_games, sessions, player_sessions,
          games, player_games, statistics, outbound, tasks, received,
          ip_sessions, now, calls, writer, reader, server, player_stats>>

(***************************************************************************)
(* piece.rs: Color, PieceType, Piece, Position, Move                        *)
(***************************************************************************)
Colors == {"White", "Black"}

PieceTypes == {"Pawn", "Rook", "Knight", "Bishop", "Queen", "King"}

Opposite(c) == IF c = "White" THEN "Black" ELSE "White"

\* Option<Piece>::None
NoPiece == [piece_type |-> "None", color |-> "None", has_moved |-> FALSE]

PieceNew(t, c) == [piece_type |-> t, color |-> c, has_moved |-> FALSE]

MarkMoved(p) == [p EXCEPT !.has_moved = TRUE]

\* Option<Position>::None
NoPos == [file |-> -1, rank |-> -1]

IsValidPos(pos) == pos.file >= 0 /\ pos.file < 8 /\ pos.rank >= 0 /\ pos.rank < 8

\* Position::new: None unless both coordinates are below 8 (a negative i8 cast
\* to u8 is 255 or 254, hence None as well)
PositionNew(f, r) ==
    IF f >= 0 /\ f < 8 /\ r >= 0 /\ r < 8 THEN [file |-> f, rank |-> r] ELSE NoPos

\* Option<PieceType>::None of Move.promotion
NoPromotion == "None"

MoveNew(from, to) ==
    [from |-> from, to |-> to, promotion |-> NoPromotion,
     is_castle |-> FALSE, is_en_passant |-> FALSE]

MoveWithPromotion(from, to, t) ==
    [from |-> from, to |-> to, promotion |-> t,
     is_castle |-> FALSE, is_en_passant |-> FALSE]

MoveCastle(from, to) ==
    [from |-> from, to |-> to, promotion |-> NoPromotion,
     is_castle |-> TRUE, is_en_passant |-> FALSE]

MoveEnPassant(from, to) ==
    [from |-> from, to |-> to, promotion |-> NoPromotion,
     is_castle |-> FALSE, is_en_passant |-> TRUE]

Abs(x) == IF x < 0 THEN -x ELSE x

Signum(x) == IF x < 0 THEN -1 ELSE IF x > 0 THEN 1 ELSE 0

Max2(x, y) == IF x > y THEN x ELSE y

(***************************************************************************)
(* board.rs: Board                                                          *)
(***************************************************************************)
BackRank == <<"Rook", "Knight", "Bishop", "Queen", "King", "Bishop", "Knight", "Rook">>

\* Board::setup_starting_position; squares[rank][file]
StartSquares ==
    [r \in 0..7 |-> [f \in 0..7 |->
        IF r = 0 THEN PieceNew(BackRank[f + 1], "White")
        ELSE IF r = 1 THEN PieceNew("Pawn", "White")
        ELSE IF r = 6 THEN PieceNew("Pawn", "Black")
        ELSE IF r = 7 THEN PieceNew(BackRank[f + 1], "Black")
        ELSE NoPiece]]

CastlingRightsDefault ==
    [white_kingside |-> TRUE, white_queenside |-> TRUE,
     black_kingside |-> TRUE, black_queenside |-> TRUE]

BoardNew ==
    [squares |-> StartSquares,
     to_move |-> "White",
     castling_rights |-> CastlingRightsDefault,
     en_passant_target |-> NoPos,
     halfmove_clock |-> 0,
     fullmove_number |-> 1]

GetPiece(b, pos) == IF IsValidPos(pos) THEN b.squares[pos.rank][pos.file] ELSE NoPiece

PlacePiece(b, pos, p) ==
    IF IsValidPos(pos) THEN [b EXCEPT !.squares[pos.rank][pos.file] = p] ELSE b

RemovePiece(b, pos) ==
    IF IsValidPos(pos) THEN [b EXCEPT !.squares[pos.rank][pos.file] = NoPiece] ELSE b

IsEmpty(b, pos) == GetPiece(b, pos) = NoPiece

IsOccupiedBy(b, pos, c) == GetPiece(b, pos) # NoPiece /\ GetPiece(b, pos).color = c

AllPositions == {[file |-> f, rank |-> r] : f \in 0..7, r \in 0..7}

\* Board::find_king scans rank 0..8, file 0..8 and returns the first king found
FindKing(b, c) ==
    LET kings == {pos \in AllPositions :
                    /\ b.squares[pos.rank][pos.file].piece_type = "King"
                    /\ b.squares[pos.rank][pos.file].color = c}
    IN IF kings = {} THEN NoPos
       ELSE CHOOSE k \in kings :
              \A o \in kings : k.rank * 8 + k.file <= o.rank * 8 + o.file

\* Board::is_path_clear, for the aligned (same rank, file or diagonal) pairs its
\* callers pass: the squares strictly between from and to are empty
IsPathClear(b, from, to) ==
    LET file_diff == to.file - from.file
        rank_diff == to.rank - from.rank
        n == Max2(Abs(file_diff), Abs(rank_diff))
    IN IF Abs(file_diff) <= 1 /\ Abs(rank_diff) <= 1 THEN TRUE
       ELSE \A i \in 1..(n - 1) :
              LET pos == PositionNew(from.file + i * Signum(file_diff),
                                     from.rank + i * Signum(rank_diff))
              IN pos = NoPos \/ IsEmpty(b, pos)

\* Board::execute_castle; on "No rook for castling" the king has already moved
ExecuteCastle(b, m) ==
    LET king == GetPiece(b, m.from)
        b1 == PlacePiece(RemovePiece(b, m.from), m.to, king)
        kingside == m.to.file > m.from.file
        rook_from == PositionNew(IF kingside THEN 7 ELSE 0, m.from.rank)
        rook_to == PositionNew(IF kingside THEN 5 ELSE 3, m.from.rank)
        rook == GetPiece(b1, rook_from)
    IN IF king = NoPiece THEN [ok |-> FALSE, board |-> b]
       ELSE IF rook = NoPiece THEN [ok |-> FALSE, board |-> b1]
       ELSE [ok |-> TRUE,
             board |-> PlacePiece(RemovePiece(b1, rook_from), rook_to, MarkMoved(rook))]

\* Board::execute_en_passant: the pawn is placed unmarked, then the square on
\* the destination file and the origin rank is emptied
ExecuteEnPassant(b, m) ==
    LET pawn == GetPiece(b, m.from)
        b1 == PlacePiece(RemovePiece(b, m.from), m.to, pawn)
        captured_pawn_pos == PositionNew(m.to.file, m.from.rank)
    IN IF pawn = NoPiece THEN [ok |-> FALSE, board |-> b]
       ELSE [ok |-> TRUE, board |-> RemovePiece(b1, captured_pawn_pos)]

\* Board::update_en_passant_target
UpdateEnPassantTarget(b, m, piece) ==
    IF piece.piece_type = "Pawn" /\ Abs(m.to.rank - m.from.rank) = 2
    THEN [b EXCEPT !.en_passant_target =
             PositionNew(m.from.file, (m.from.rank + m.to.rank) \div 2)]
    ELSE [b EXCEPT !.en_passant_target = NoPos]

\* Board::update_castling_rights
UpdateCastlingRights(b, m, piece) ==
    LET cr == b.castling_rights
        cr1 == IF piece.piece_type = "King"
               THEN IF piece.color = "White"
                    THEN [cr EXCEPT !.white_kingside = FALSE, !.white_queenside = FALSE]
                    ELSE [cr EXCEPT !.black_kingside = FALSE, !.black_queenside = FALSE]
               ELSE IF piece.piece_type = "Rook"
               THEN IF piece.color = "White" /\ m.from.file = 0 /\ m.from.rank = 0
                    THEN [cr EXCEPT !.white_queenside = FALSE]
                    ELSE IF piece.color = "White" /\ m.from.file = 7 /\ m.from.rank = 0
                    THEN [cr EXCEPT !.white_kingside = FALSE]
                    ELSE IF piece.color = "Black" /\ m.from.file = 0 /\ m.from.rank = 7
                    THEN [cr EXCEPT !.black_queenside = FALSE]
                    ELSE IF piece.color = "Black" /\ m.from.file = 7 /\ m.from.rank = 7
                    THEN [cr EXCEPT !.black_kingside = FALSE]
                    ELSE cr
               ELSE cr
        cr2 == IF m.to.file = 0 /\ m.to.rank = 0 THEN [cr1 EXCEPT !.white_queenside = FALSE]
               ELSE IF m.to.file = 7 /\ m.to.rank = 0 THEN [cr1 EXCEPT !.white_kingside = FALSE]
               ELSE IF m.to.file = 0 /\ m.to.rank = 7 THEN [cr1 EXCEPT !.black_queenside = FALSE]
               ELSE IF m.to.file = 7 /\ m.to.rank = 7 THEN [cr1 EXCEPT !.black_kingside = FALSE]
               ELSE cr1
    IN [b EXCEPT !.castling_rights = cr2]

\* Board::make_move lines 221-230: the clock test reads the destination square
\* after the piece has been put on it
UpdateClocks(b, m, piece) ==
    LET b1 == IF piece.piece_type = "Pawn" \/ ~IsEmpty(b, m.to)
              THEN [b EXCEPT !.halfmove_clock = 0]
              ELSE [b EXCEPT !.halfmove_clock = @ + 1]
        b2 == IF b1.to_move = "White"
              THEN [b1 EXCEPT !.fullmove_number = @ + 1]
              ELSE b1
    IN [b2 EXCEPT !.to_move = Opposite(@)]

\* Board::make_move; ok = FALSE models the Err return
MakeMove(b, m) ==
    LET piece == GetPiece(b, m.from)
        moved_piece == MarkMoved(piece)
        placed == IF m.is_castle THEN ExecuteCastle(b, m)
                  ELSE IF m.is_en_passant THEN ExecuteEnPassant(b, m)
                  ELSE [ok |-> TRUE,
                        board |-> PlacePiece(RemovePiece(b, m.from), m.to,
                                    IF m.promotion # NoPromotion
                                    THEN [moved_piece EXCEPT !.piece_type = m.promotion]
                                    ELSE moved_piece)]
    IN IF piece = NoPiece THEN [ok |-> FALSE, board |-> b]
       ELSE IF piece.color # b.to_move THEN [ok |-> FALSE, board |-> b]
       ELSE IF ~placed.ok THEN placed
       ELSE [ok |-> TRUE,
             board |-> UpdateClocks(
                          UpdateCastlingRights(
                             UpdateEnPassantTarget(placed.board, m, piece), m, piece),
                          m, piece)]

(***************************************************************************)
(* rules.rs: MoveValidator                                                  *)
(***************************************************************************)
Direction(c) == IF c = "White" THEN 1 ELSE -1

\* MoveValidator::is_valid_en_passant
IsValidEnPassant(b, m, piece) ==
    /\ b.en_passant_target # NoPos
    /\ m.to = b.en_passant_target
    /\ LET captured_piece == GetPiece(b, PositionNew(b.en_passant_target.file, m.from.rank))
       IN /\ captured_piece # NoPiece
          /\ captured_piece.piece_type = "Pawn"
          /\ captured_piece.color # piece.color

\* MoveValidator::is_valid_pawn_move
IsValidPawnMove(b, m, piece) ==
    LET direction == Direction(piece.color)
        file_diff == m.to.file - m.from.file
        rank_diff == m.to.rank - m.from.rank
    IN IF m.is_en_passant THEN IsValidEnPassant(b, m, piece)
       ELSE IF file_diff = 0
       THEN \/ (rank_diff = direction /\ IsEmpty(b, m.to))
            \/ (rank_diff = 2 * direction /\ ~piece.has_moved /\ IsEmpty(b, m.to))
       ELSE /\ Abs(file_diff) = 1
            /\ rank_diff = direction
            /\ IsOccupiedBy(b, m.to, Opposite(piece.color))

\* MoveValidator::is_valid_rook_move
IsValidRookMove(b, m) ==
    /\ ~(m.from.file # m.to.file /\ m.from.rank # m.to.rank)
    /\ IsPathClear(b, m.from, m.to)

\* MoveValidator::is_valid_knight_move
IsValidKnightMove(m) ==
    LET file_diff == Abs(m.to.file - m.from.file)
        rank_diff == Abs(m.to.rank - m.from.rank)
    IN (file_diff = 2 /\ rank_diff = 1) \/ (file_diff = 1 /\ rank_diff = 2)

\* MoveValidator::is_valid_bishop_move
IsValidBishopMove(b, m) ==
    /\ Abs(m.to.file - m.from.file) = Abs(m.to.rank - m.from.rank)
    /\ IsPathClear(b, m.from, m.to)

\* MoveValidator::is_valid_queen_move
IsValidQueenMove(b, m) == IsValidRookMove(b, m) \/ IsValidBishopMove(b, m)

\* MoveValidator::can_pawn_attack: the Black direction is written 01, that is 1
CanPawnAttack(m, piece) ==
    LET direction == IF piece.color = "White" THEN 1 ELSE 1
        file_diff == Abs(m.to.file - m.from.file)
        rank_diff == m.to.rank - m.from.rank
    IN file_diff = 1 /\ rank_diff = direction

\* MoveValidator::can_piece_attack
CanPieceAttack(b, m, piece) ==
    CASE piece.piece_type = "Pawn" -> CanPawnAttack(m, piece)
      [] piece.piece_type = "Rook" -> IsValidRookMove(b, m)
      [] piece.piece_type = "Knight" -> IsValidKnightMove(m)
      [] piece.piece_type = "Bishop" -> IsValidBishopMove(b, m)
      [] piece.piece_type = "Queen" -> IsValidQueenMove(b, m)
      [] piece.piece_type = "King" ->
            Abs(m.to.file - m.from.file) <= 1 /\ Abs(m.to.rank - m.from.rank) <= 1

\* MoveValidator::is_square_attacked
IsSquareAttacked(b, pos, by_color) ==
    \E rank \in 0..7, file \in 0..7 :
        LET piece == b.squares[rank][file]
        IN /\ piece.color = by_color
           /\ CanPieceAttack(b, MoveNew([file |-> file, rank |-> rank], pos), piece)

\* MoveValidator::is_in_check
IsInCheck(b, color) ==
    LET king_pos == FindKing(b, color)
    IN king_pos # NoPos /\ IsSquareAttacked(b, king_pos, Opposite(color))

\* MoveValidator::is_valid_castle
IsValidCastle(b, m, piece) ==
    LET is_kingside == m.to.file > m.from.file
        cr == b.castling_rights
        has_right == IF piece.color = "White"
                     THEN IF is_kingside THEN cr.white_kingside ELSE cr.white_queenside
                     ELSE IF is_kingside THEN cr.black_kingside ELSE cr.black_queenside
        rook_pos == PositionNew(IF is_kingside THEN 7 ELSE 0, m.from.rank)
        rook == GetPiece(b, rook_pos)
        step == IF is_kingside THEN 1 ELSE -1
        king_path == {PositionNew(m.from.file + step, m.from.rank),
                      PositionNew(m.from.file + 2 * step, m.from.rank)}
    IN /\ ~piece.has_moved
       /\ ~IsInCheck(b, piece.color)
       /\ has_right
       /\ rook # NoPiece
       /\ ~(rook.piece_type # "Rook" \/ rook.color # piece.color \/ rook.has_moved)
       /\ IsPathClear(b, m.from, rook_pos)
       /\ \A pos \in king_path : ~IsSquareAttacked(b, pos, Opposite(piece.color))

\* MoveValidator::is_valid_king_move
IsValidKingMove(b, m, piece) ==
    IF m.is_castle THEN IsValidCastle(b, m, piece)
    ELSE Abs(m.to.file - m.from.file) <= 1 /\ Abs(m.to.rank - m.from.rank) <= 1

\* MoveValidator::is_piece_move_valid
IsPieceMoveValid(b, m, piece) ==
    CASE piece.piece_type = "Pawn" -> IsValidPawnMove(b, m, piece)
      [] piece.piece_type = "Rook" -> IsValidRookMove(b, m)
      [] piece.piece_type = "Knight" -> IsValidKnightMove(m)
      [] piece.piece_type = "Bishop" -> IsValidBishopMove(b, m)
      [] piece.piece_type = "Queen" -> IsValidQueenMove(b, m)
      [] piece.piece_type = "King" -> IsValidKingMove(b, m, piece)

\* A self-check filter that looks at the side to move after the move
WouldBeInCheckOtherSide(b, m) ==
    LET test == MakeMove(b, m)
    IN IF test.ok THEN IsInCheck(test.board, test.board.to_move) ELSE TRUE

\* MoveValidator::would_be_in_check_after_move
WouldBeInCheckAfterMove(b, m) ==
    LET test == MakeMove(b, m)
    IN IF test.ok THEN IsInCheck(test.board, b.to_move) ELSE TRUE

\* MoveValidator::is_valid_move
IsValidMove(b, m) ==
    /\ IsValidPos(m.from) /\ IsValidPos(m.to)
    /\ m.from # m.to
    /\ GetPiece(b, m.from) # NoPiece
    /\ GetPiece(b, m.from).color = b.to_move
    /\ ~IsOccupiedBy(b, m.to, GetPiece(b, m.from).color)
    /\ IsPieceMoveValid(b, m, GetPiece(b, m.from))
    /\ ~WouldBeInCheckAfterMove(b, m)

\* The squares a sliding piece reaches along the directions dirs: every empty
\* square up to the first occupied one, and that one if the opponent holds it
\* (MoveValidator::generate_rook_moves)
GenerateRayMoves(b, from, dirs) ==
    {MoveNew(from, PositionNew(from.file + d[1] * dist, from.rank + d[2] * dist)) :
        <<d, dist>> \in
            {x \in dirs \X (1..7) :
                LET to == PositionNew(from.file + x[1][1] * x[2], from.rank + x[1][2] * x[2])
                IN /\ to # NoPos
                   /\ \A k \in 1..(x[2] - 1) :
                         IsEmpty(b, PositionNew(from.file + x[1][1] * k,
                                                from.rank + x[1][2] * k))
                   /\ \/ IsEmpty(b, to)
                      \/ IsOccupiedBy(b, to, Opposite(GetPiece(b, from).color))}}

\* MoveValidator::generate_rook_moves
GenerateRookMoves(b, from) ==
    GenerateRayMoves(b, from, {<<0, 1>>, <<0, -1>>, <<1, 0>>, <<-1, 0>>})

\* MoveValidator::generate_bishop_moves
GenerateBishopMoves(b, from) ==
    GenerateRayMoves(b, from, {<<1, 1>>, <<1, -1>>, <<-1, 1>>, <<-1, -1>>})

\* MoveValidator::generate_queen_moves
GenerateQueenMoves(b, from) == GenerateRookMoves(b, from) \cup GenerateBishopMoves(b, from)

\* MoveValidator::generate_knight_moves
GenerateKnightMoves(from) ==
    {MoveNew(from, PositionNew(from.file + o[1], from.rank + o[2])) :
        o \in {x \in {<<2, 1>>, <<2, -1>>, <<-2, 1>>, <<-2, -1>>,
                      <<1, 2>>, <<1, -2>>, <<-1, 2>>, <<-1, -2>>} :
                 PositionNew(from.file + x[1], from.rank + x[2]) # NoPos}}

\* MoveValidator::generate_king_moves: the eight neighbours and the two castles
GenerateKingMoves(b, from, piece) ==
    {MoveNew(from, PositionNew(from.file + o[1], from.rank + o[2])) :
        o \in {x \in (-1..1) \X (-1..1) :
                 /\ x # <<0, 0>>
                 /\ PositionNew(from.file + x[1], from.rank + x[2]) # NoPos}}
    \cup
    {MoveCastle(from, PositionNew(from.file + s, from.rank)) :
        s \in {x \in {2, -2} : PositionNew(from.file + x, from.rank) # NoPos}}

PromotionKinds == {"Queen", "Rook", "Bishop", "Knight"}

\* The pushes of MoveValidator::generate_pawn_moves onto the square to
PawnArrivals(from, to, piece) ==
    IF (piece.color = "White" /\ to.rank = 7) \/ (piece.color = "Black" /\ to.rank = 0)
    THEN {MoveWithPromotion(from, to, k) : k \in PromotionKinds}
    ELSE {MoveNew(from, to)}

\* MoveValidator::generate_pawn_moves
GeneratePawnMoves(b, from, piece) ==
    LET direction == Direction(piece.color)
        to1 == PositionNew(from.file, from.rank + direction)
        to2 == PositionNew(from.file, from.rank + 2 * direction)
        forward ==
            IF to1 # NoPos /\ IsEmpty(b, to1)
            THEN PawnArrivals(from, to1, piece)
                 \cup (IF ~piece.has_moved /\ to2 # NoPos /\ IsEmpty(b, to2)
                       THEN {MoveNew(from, to2)} ELSE {})
            ELSE {}
        attack(file_offset) ==
            LET to == PositionNew(from.file + file_offset, from.rank + direction)
            IN IF to = NoPos THEN {}
               ELSE (IF IsOccupiedBy(b, to, Opposite(piece.color))
                     THEN PawnArrivals(from, to, piece) ELSE {})
                    \cup (IF b.en_passant_target # NoPos /\ to = b.en_passant_target
                          THEN {MoveEnPassant(from, to)} ELSE {})
    IN forward \cup attack(-1) \cup attack(1)

\* MoveValidator::generate_piece_moves
GeneratePieceMoves(b, from, piece) ==
    CASE piece.piece_type = "Pawn" -> GeneratePawnMoves(b, from, piece)
      [] piece.piece_type = "Rook" -> GenerateRookMoves(b, from)
      [] piece.piece_type = "Knight" -> GenerateKnightMoves(from)
      [] piece.piece_type = "Bishop" -> GenerateBishopMoves(b, from)
      [] piece.piece_type = "Queen" -> GenerateQueenMoves(b, from)
      [] piece.piece_type = "King" -> GenerateKingMoves(b, from, piece)

\* MoveValidator::generate_legal_moves, as the set of the moves of its result
GenerateLegalMoves(b) ==
    UNION {{m \in GeneratePieceMoves(b, from, GetPiece(b, from)) : IsValidMove(b, m)} :
             from \in {pos \in AllPositions : GetPiece(b, pos).color = b.to_move}}

\* MoveValidator::is_checkmate
IsCheckmate(b) == IsInCheck(b, b.to_move) /\ GenerateLegalMoves(b) = {}

\* MoveValidator::is_stalemate
IsStalemate(b) == ~IsInCheck(b, b.to_move) /\ GenerateLegalMoves(b) = {}

FiftyMoveLimit == 100

\* MoveValidator::is_draw_by_fifty_move_rule
IsDrawByFiftyMoveRule(b) == b.halfmove_clock >= FiftyMoveLimit

(***************************************************************************)
(* board.rs: Board::to_fen.  A FEN string is kept as its six space-separated *)
(* fields, each the sequence of its characters (the clocks as numbers).     *)
(***************************************************************************)
\* Piece::to_fen_char
ToFenChar(p) ==
    LET base == CASE p.piece_type = "Pawn" -> <<"p", "P">>
                  [] p.piece_type = "Rook" -> <<"r", "R">>
                  [] p.piece_type = "Knight" -> <<"n", "N">>
                  [] p.piece_type = "Bishop" -> <<"b", "B">>
                  [] p.piece_type = "Queen" -> <<"q", "Q">>
                  [] p.piece_type = "King" -> <<"k", "K">>
    IN IF p.color = "White" THEN base[2] ELSE base[1]

\* empty_count.to_string()
CountChar(n) == <<"1", "2", "3", "4", "5", "6", "7", "8">>[n]

RECURSIVE FenRank(_, _, _, _)
\* The inner loop of Board::to_fen over the files of one rank
FenRank(b, rank, file, empty_count) ==
    IF file = 8
    THEN IF empty_count > 0 THEN <<CountChar(empty_count)>> ELSE <<>>
    ELSE LET piece == b.squares[rank][file]
         IN IF piece = NoPiece
            THEN FenRank(b, rank, file + 1, empty_count + 1)
            ELSE (IF empty_count > 0 THEN <<CountChar(empty_count)>> ELSE <<>>)
                 \o <<ToFenChar(piece)>>
                 \o FenRank(b, rank, file + 1, 0)

RECURSIVE FenPlacement(_, _)
\* The outer loop of Board::to_fen, from rank 7 down to rank 0
FenPlacement(b, rank) ==
    FenRank(b, rank, 0, 0)
    \o (IF rank > 0 THEN <<"/">> \o FenPlacement(b, rank - 1) ELSE <<>>)

\* Position::to_algebraic
ToAlgebraic(pos) ==
    <<(<<"a", "b", "c", "d", "e", "f", "g", "h">>)[pos.file + 1],
      (<<"1", "2", "3", "4", "5", "6", "7", "8">>)[pos.rank + 1]>>

\* Board::to_fen
ToFen(b) ==
    LET cr == b.castling_rights
        castling == (IF cr.white_kingside THEN <<"K">> ELSE <<>>)
                    \o (IF cr.white_queenside THEN <<"Q">> ELSE <<>>)
                    \o (IF cr.black_kingside THEN <<"k">> ELSE <<>>)
                    \o (IF cr.black_queenside THEN <<"q">> ELSE <<>>)
    IN [placement |-> FenPlacement(b, 7),
        side |-> IF b.to_move = "White" THEN <<"w">> ELSE <<"b">>,
        castling |-> IF castling = <<>> THEN <<"-">> ELSE castling,
        en_passant |-> IF b.en_passant_target # NoPos
                       THEN ToAlgebraic(b.en_passant_target) ELSE <<"-">>,
        halfmove |-> b.halfmove_clock,
        fullmove |-> b.fullmove_number]

\* fen.split(' ') followed by [0..4]: the first four fields
FenParts4(fen) == <<fen.placement, fen.side, fen.castling, fen.en_passant>>

(***************************************************************************)
(* game_state.rs: GameResult, GameState                                     *)
(***************************************************************************)
Ongoing == [kind |-> "Ongoing", arg |-> "None"]

Checkmate(c) == [kind |-> "Checkmate", arg |-> c]

Stalemate == [kind |-> "Stalemate", arg |-> "None"]

Draw(reason) == [kind |-> "Draw", arg |-> reason]

Resignation(c) == [kind |-> "Resignation", arg |-> c]

Timeout(c) == [kind |-> "Timeout", arg |-> c]

\* Option<String>::None of a player slot
NoPlayer == "None"

\* Option<Color>::None
NoColor == "None"

\* GameState::get_player_color, on the slots w and b
GetPlayerColor(w, b, player_id) ==
    IF w # NoPlayer /\ w = player_id THEN "White"
    ELSE IF b # NoPlayer /\ b = player_id THEN "Black"
    ELSE NoColor

\* A repetition test that is content with two occurrences
IsTwofoldRepetition(history) ==
    LET curr_pos == history[Len(history)]
        cnt == Cardinality({i \in 1..Len(history) :
                              FenParts4(history[i]) = FenParts4(curr_pos)})
    IN cnt >= 2

\* GameState::is_threefold_repetition on a position history
IsThreefoldRepetition(history) ==
    LET curr_pos == history[Len(history)]
        cnt == Cardinality({i \in 1..Len(history) :
                              FenParts4(history[i]) = FenParts4(curr_pos)})
    IN cnt >= 3

\* GameState::is_insufficient_material_for_color on the piece types of a color
IsInsufficientMaterialForColor(b, c) ==
    LET of(t) == Cardinality({pos \in AllPositions :
                    GetPiece(b, pos).color = c /\ GetPiece(b, pos).piece_type = t})
        bishops == of("Bishop")
        knights == of("Knight")
        has_major_pieces == of("Pawn") + of("Rook") + of("Queen") > 0
    IN /\ ~has_major_pieces
       /\ \/ (bishops = 0 /\ knights = 0)
          \/ (bishops = 1 /\ knights = 0)
          \/ (bishops = 0 /\ knights = 1)

\* GameState::is_insufficient_material
IsInsufficientMaterial(b) ==
    IsInsufficientMaterialForColor(b, "White") /\ IsInsufficientMaterialForColor(b, "Black")

\* A check_game_end that names the side to move as the winner
CheckGameEndWinnerToMove(b, history, res) ==
    IF IsCheckmate(b) THEN Checkmate(b.to_move)
    ELSE IF IsStalemate(b) THEN Stalemate
    ELSE IF IsDrawByFiftyMoveRule(b) THEN Draw("FiftyMoveRule")
    ELSE IF IsThreefoldRepetition(history) THEN Draw("ThreefoldRepetition")
    ELSE IF IsInsufficientMaterial(b) THEN Draw("InsufficientMaterial")
    ELSE res

\* GameState::check_game_end: the result after it, res being the result before
CheckGameEnd(b, history, res) ==
    IF IsCheckmate(b) THEN Checkmate(Opposite(b.to_move))
    ELSE IF IsStalemate(b) THEN Stalemate
    ELSE IF IsDrawByFiftyMoveRule(b) THEN Draw("FiftyMoveRule")
    ELSE IF IsThreefoldRepetition(history) THEN Draw("ThreefoldRepetition")
    ELSE IF IsInsufficientMaterial(b) THEN Draw("InsufficientMaterial")
    ELSE res

(***************************************************************************)
(* The requests of the two seated players and of an outsider.  The moves   *)
(* they send are those of a book of games; a game may leave the book by    *)
(* one move.                                                               *)
(***************************************************************************)
Players == {"p1", "p2", "p3"}

P(f, r) == [file |-> f, rank |-> r]

\* e2e4 e7e5 f1c4 b8c6 d1h5 g8f6 h5f7
ScholarsMate ==
    <<MoveNew(P(4, 1), P(4, 3)), MoveNew(P(4, 6), P(4, 4)),
      MoveNew(P(5, 0), P(2, 3)), MoveNew(P(1, 7), P(2, 5)),
      MoveNew(P(3, 0), P(7, 4)), MoveNew(P(6, 7), P(5, 5)),
      MoveNew(P(7, 4), P(5, 6))>>

\* g1f3 g8f6 f3g1 f6g8, twice
KnightShuffle ==
    <<MoveNew(P(6, 0), P(5, 2)), MoveNew(P(6, 7), P(5, 5)),
      MoveNew(P(5, 2), P(6, 0)), MoveNew(P(5, 5), P(6, 7)),
      MoveNew(P(6, 0), P(5, 2)), MoveNew(P(6, 7), P(5, 5)),
      MoveNew(P(5, 2), P(6, 0)), MoveNew(P(5, 5), P(6, 7))>>

\* e2e4 a7a6 e4e5 d7d5 e5d6 (en passant)
EnPassantTaken ==
    <<MoveNew(P(4, 1), P(4, 3)), MoveNew(P(0, 6), P(0, 5)),
      MoveNew(P(4, 3), P(4, 4)), MoveNew(P(3, 6), P(3, 4)),
      MoveEnPassant(P(4, 4), P(3, 5))>>

\* e2e4 a7a6 e4e5 d7d5 b1c3 h7h6: the en-passant window has passed
EnPassantMissed ==
    <<MoveNew(P(4, 1), P(4, 3)), MoveNew(P(0, 6), P(0, 5)),
      MoveNew(P(4, 3), P(4, 4)), MoveNew(P(3, 6), P(3, 4)),
      MoveNew(P(1, 0), P(2, 2)), MoveNew(P(7, 6), P(7, 5))>>

\* g1f3 h7h5 e2e3 h5h4 f1e2 h4h3 a2a3 h3g2 e1g1 (castle): a black pawn on g2
CastleLine ==
    <<MoveNew(P(6, 0), P(5, 2)), MoveNew(P(7, 6), P(7, 4)),
      MoveNew(P(4, 1), P(4, 2)), MoveNew(P(7, 4), P(7, 3)),
      MoveNew(P(5, 0), P(4, 1)), MoveNew(P(7, 3), P(7, 2)),
      MoveNew(P(0, 1), P(0, 2)), MoveNew(P(7, 2), P(6, 1)),
      MoveCastle(P(4, 0), P(6, 0))>>

\* e2e4 e7e5, then e1e2 sent with promotion = Queen
KingPromotion ==
    <<MoveNew(P(4, 1), P(4, 3)), MoveNew(P(4, 6), P(4, 4)),
      MoveWithPromotion(P(4, 0), P(4, 1), "Queen")>>

\* a2a4 h7h6 a4a5 e7e5, then a5e6 sent as en passant
EnPassantFar ==
    <<MoveNew(P(0, 1), P(0, 3)), MoveNew(P(7, 6), P(7, 5)),
      MoveNew(P(0, 3), P(0, 4)), MoveNew(P(4, 6), P(4, 4)),
      MoveEnPassant(P(0, 4), P(4, 5))>>

\* d2d4 e7e5 d4e5 a7a5 e2e4, then a5e3 sent as en passant
EnPassantOther ==
    <<MoveNew(P(3, 1), P(3, 3)), MoveNew(P(4, 6), P(4, 4)),
      MoveNew(P(3, 3), P(4, 4)), MoveNew(P(0, 6), P(0, 4)),
      MoveNew(P(4, 1), P(4, 3)), MoveEnPassant(P(0, 4), P(4, 2))>>

\* e2e3 a7a5 d1h5 a8a6 h5a5 h7h5 h2h4 a6h6 a5c7 f7f6 c7d7 e8f7 d7b7 d8d3
\* b7b8 d3h7 b8c8 f7g6 c8e6: Black is left without a move
StalemateLine ==
    <<MoveNew(P(4, 1), P(4, 2)), MoveNew(P(0, 6), P(0, 4)),
      MoveNew(P(3, 0), P(7, 4)), MoveNew(P(0, 7), P(0, 5)),
      MoveNew(P(7, 4), P(0, 4)), MoveNew(P(7, 6), P(7, 4)),
      MoveNew(P(7, 1), P(7, 3)), MoveNew(P(0, 5), P(7, 5)),
      MoveNew(P(0, 4), P(2, 6)), MoveNew(P(5, 6), P(5, 5)),
      MoveNew(P(2, 6), P(3, 6)), MoveNew(P(4, 7), P(5, 6)),
      MoveNew(P(3, 6), P(1, 6)), MoveNew(P(3, 7), P(3, 2)),
      MoveNew(P(1, 6), P(1, 7)), MoveNew(P(3, 2), P(7, 6)),
      MoveNew(P(1, 7), P(2, 7)), MoveNew(P(5, 6), P(6, 5)),
      MoveNew(P(2, 7), P(4, 5))>>

\* g1f3 sent with is_castle = true: a knight's move carrying the castle flag
KnightCastle == <<MoveCastle(P(6, 0), P(5, 2))>>

Book == {ScholarsMate, KnightShuffle, EnPassantTaken, EnPassantMissed, CastleLine,
         KingPromotion, EnPassantFar, EnPassantOther, StalemateLine, KnightCastle}

\* The moves the players send
Pool == UNION {{line[i] : i \in 1..Len(line)} : line \in Book}

IsPrefix(h, line) == Len(h) <= Len(line) /\ SubSeq(line, 1, Len(h)) = h

InBook(h) == \E line \in Book : IsPrefix(h, line)

\* How many moves a game may play after leaving the book
MaxOffBook == 1

\* The number of moves played since the game left the book
OffBook(h) ==
    Len(h) - CHOOSE k \in 0..Len(h) :
                /\ InBook(SubSeq(h, 1, k))
                /\ \A j \in (k + 1)..Len(h) : ~InBook(SubSeq(h, 1, j))

(***************************************************************************)
(* utils/mod.rs: RateLimiter                                                *)
(***************************************************************************)
Min2(a, b) == IF a < b THEN a ELSE b

\* Token amounts are counted in half tokens, so that the refill rate 0.5 of a
\* guest session is the integer 1: Tok(n) is the f64 value n
Tok(n) == 2 * n

\* The f64 value 0.5
HalfTok == 1

\* RateLimiter::refill at the time t (current_timestamp, in seconds)
Refill(limiter, t) ==
    LET time_passed == t - limiter.last_refill
    IN IF time_passed > 0
       THEN [limiter EXCEPT
                !.tokens = Min2(@ + time_passed * limiter.refill_rate, limiter.capacity),
                !.last_refill = t]
       ELSE limiter

\* A try_consume that takes the tokens whether or not there are enough
TryConsumeAlways(limiter, tokens, t) ==
    LET refilled == Refill(limiter, t)
    IN [ok |-> refilled.tokens >= tokens,
        limiter |-> [refilled EXCEPT !.tokens = @ - tokens]]

\* RateLimiter::try_consume; ok is the value returned
TryConsume(limiter, tokens, t) ==
    LET refilled == Refill(limiter, t)
    IN IF refilled.tokens >= tokens
       THEN [ok |-> TRUE, limiter |-> [refilled EXCEPT !.tokens = @ - tokens]]
       ELSE [ok |-> FALSE, limiter |-> refilled]

(***************************************************************************)
(* session.rs: Session, SessionPermissions, SessionManager                  *)
(***************************************************************************)
\* The names clients connect and authenticate with
Names == {"p1", "p2"}

NoName == "None"

\* How many guest sessions the connections create
MaxGuests == 1

\* How many sessions the connections create
MaxSessions == 3

\* How many session ids the session manager hands out
MaxIds == 12

\* Session::guest: the player id "guest_" followed by fresh characters, here
\* the number of the session
GuestId(k) == "guest_" \o ToString(k)

GuestIds == {GuestId(k) : k \in 1..MaxIds}

PlayerIds == Names \cup GuestIds

\* The addresses connections come from
Ips == {"ip1", "ip2"}

NoIp == "None"

NoSessionId == 0

\* SessionManager.timeout_secs
TimeoutSecs == 1

\* SessionPermissions::default
PermissionsDefault ==
    [can_create_games |-> TRUE, can_join_games |-> TRUE, can_spectate |-> TRUE,
     can_chat |-> TRUE, is_admin |-> FALSE, is_moderator |-> FALSE]

\* SessionPermissions::guest
PermissionsGuest ==
    [can_create_games |-> FALSE, can_join_games |-> TRUE, can_spectate |-> TRUE,
     can_chat |-> FALSE, is_admin |-> FALSE, is_moderator |-> FALSE]

\* Option<RateLimiterState>::None
NoRateLimiter == [tokens |-> 0, capacity |-> 0, refill_rate |-> 0, last_refill |-> 0]

\* Option<Session>::None, and the place of a removed session in the map
NoSession ==
    [id |-> NoSessionId, player_id |-> NoPlayer, last_activity |-> 0,
     ip_address |-> NoIp, is_authenticated |-> FALSE,
     permissions |-> PermissionsGuest, rate_limiter |-> NoRateLimiter]

\* Session::new at the time t
SessionNew(id, player_id, ip_address, t) ==
    [id |-> id, player_id |-> player_id, last_activity |-> t,
     ip_address |-> ip_address, is_authenticated |-> FALSE,
     permissions |-> PermissionsDefault, rate_limiter |-> NoRateLimiter]

\* Session::guest at the time t
SessionGuest(id, ip_address, t) ==
    [id |-> id, player_id |-> GuestId(id), last_activity |-> t,
     ip_address |-> ip_address, is_authenticated |-> FALSE,
     permissions |-> PermissionsGuest, rate_limiter |-> NoRateLimiter]

\* Session::authenticate at the time t
SessionAuthenticate(session, player_id, t) ==
    [session EXCEPT !.player_id = player_id, !.is_authenticated = TRUE,
                    !.permissions = PermissionsDefault, !.last_activity = t]

\* An is_expired that is true from the timeout on
IsExpiredAtTimeout(session, t) == t - session.last_activity >= TimeoutSecs

\* Session::is_expired at the time t
IsExpired(session, t) == t - session.last_activity > TimeoutSecs

\* Session::set_rate_limiter at the time t
SetRateLimiter(session, capacity, refill_rate, t) ==
    [session EXCEPT !.rate_limiter = [tokens |-> capacity, capacity |-> capacity,
                                      refill_rate |-> refill_rate, last_refill |-> t]]

\* Session::can_perform_action at the time t; ok is the value returned
CanPerformAction(session, cost, t) ==
    IF session.rate_limiter # NoRateLimiter
    THEN LET consumed == TryConsume(session.rate_limiter, cost, t)
         IN [ok |-> consumed.ok,
             session |-> [session EXCEPT !.rate_limiter = consumed.limiter]]
    ELSE [ok |-> TRUE, session |-> session]

\* Session::can_create_game
CanCreateGame(session) == session.permissions.can_create_games

\* Session::can_join_game
CanJoinGame(session) == session.permissions.can_join_games

\* The SessionManager sm holds a session with this id
HasSession(sm, session_id) ==
    session_id \in 1..Len(sm.sessions) /\ sm.sessions[session_id] # NoSession

\* SessionManager::remove_session
RemoveSession(sm, session_id) ==
    IF HasSession(sm, session_id)
    THEN LET session == sm.sessions[session_id]
         IN [sessions |-> [sm.sessions EXCEPT ![session_id] = NoSession],
             player_sessions |-> [sm.player_sessions EXCEPT
                                     ![session.player_id] = NoSessionId],
             ip_sessions |-> [sm.ip_sessions EXCEPT
                 ![session.ip_address] = SelectSeq(@, LAMBDA id : id # session_id)]]
    ELSE sm

\* SessionManager::remove_player_session
RemovePlayerSession(sm, player_id) ==
    IF sm.player_sessions[player_id] # NoSessionId
    THEN RemoveSession([sm EXCEPT !.player_sessions[player_id] = NoSessionId],
                       sm.player_sessions[player_id])
    ELSE sm

\* SessionManager::create_session at the time t: the player's session is
\* reused while it has not expired, else a session with a fresh id is stored;
\* ok = FALSE models the Err return
CreateSession(sm, player_id, ip, t) ==
    LET existing_session_id == sm.player_sessions[player_id]
        ip_session_cnt == Len(sm.ip_sessions[ip])
        session_id == Len(sm.sessions) + 1
        session == SetRateLimiter(SessionNew(session_id, player_id, ip, t),
                                  Tok(60), Tok(1), t)
        removed == RemovePlayerSession(sm, player_id)
    IN IF /\ existing_session_id # NoSessionId
          /\ HasSession(sm, existing_session_id)
          /\ ~IsExpired(sm.sessions[existing_session_id], t)
       THEN [ok |-> TRUE, session_id |-> sm.sessions[existing_session_id].id,
             sm |-> [sm EXCEPT !.sessions[existing_session_id].last_activity = t]]
       ELSE IF ip_session_cnt >= 5
       THEN [ok |-> FALSE, session_id |-> NoSessionId, sm |-> sm]
       ELSE [ok |-> TRUE, session_id |-> session_id,
             sm |-> [sessions |-> Append(removed.sessions, session),
                     player_sessions |-> [removed.player_sessions EXCEPT
                                             ![player_id] = session_id],
                     ip_sessions |-> [removed.ip_sessions EXCEPT
                                         ![ip] = Append(@, session_id)]]]

\* The guest player ids in use
GuestsInUse(ps) == {g \in GuestIds : ps[g] # NoSessionId}

\* SessionManager::create_guest_session at the time t
CreateGuestSession(sm, ip, t) ==
    LET ip_session_cnt == Len(sm.ip_sessions[ip])
        session_id == Len(sm.sessions) + 1
        session == SetRateLimiter(SessionGuest(session_id, ip, t), Tok(30), HalfTok, t)
    IN IF ip_session_cnt >= 10
       THEN [ok |-> FALSE, session_id |-> NoSessionId, sm |-> sm]
       ELSE [ok |-> TRUE, session_id |-> session_id,
             sm |-> [sessions |-> Append(sm.sessions, session),
                     player_sessions |-> [sm.player_sessions EXCEPT
                                             ![session.player_id] = session_id],
                     ip_sessions |-> [sm.ip_sessions EXCEPT
                                         ![ip] = Append(@, session_id)]]]

\* SessionManager::authenticate_session at the time t; ok = FALSE models the
\* Err return
AuthenticateSession(sm, session_id, player_id, t) ==
    IF ~HasSession(sm, session_id)
    THEN [ok |-> FALSE, sm |-> sm]
    ELSE LET session == sm.sessions[session_id]
             ps1 == IF session.is_authenticated
                    THEN [sm.player_sessions EXCEPT ![session.player_id] = NoSessionId]
                    ELSE sm.player_sessions
         IN [ok |-> TRUE,
             sm |-> [sm EXCEPT
                        !.sessions[session_id] = SessionAuthenticate(session, player_id, t),
                        !.player_sessions = [ps1 EXCEPT ![player_id] = session_id]]]

\* The ids of the sessions of sm that are expired at the time t
ExpiredSessionIds(sm, t) ==
    {id \in 1..Len(sm.sessions) : HasSession(sm, id) /\ IsExpired(sm.sessions[id], t)}

RECURSIVE RemoveSessions(_, _)
\* The loop of SessionManager::cleanup_expired_sessions
RemoveSessions(sm, ids) ==
    IF ids = {} THEN sm
    ELSE LET id == CHOOSE x \in ids : TRUE
         IN RemoveSessions(RemoveSession(sm, id), ids \ {id})

\* SessionManager::cleanup_expired_sessions at the time t; cnt is the value
\* returned
CleanupExpiredSessions(sm, t) ==
    [cnt |-> Cardinality(ExpiredSessionIds(sm, t)),
     sm |-> RemoveSessions(sm, ExpiredSessionIds(sm, t))]

(***************************************************************************)
(* client.rs: Client, ClientManager; protocol.rs: Message                   *)
(***************************************************************************)
\* The connections the server accepts
Conns == {"c1", "c2"}

NoClient == "None"

GameIds == {"g1"}

NoGame == "None"

\* ClientInfo of a connection that has not been accepted
NoClientInfo == [state |-> "None", session_id |-> NoSessionId, player_id |-> NoPlayer]

\* A Message: its type, the request it answers, and the fields of its payload
Msg(type, re) ==
    [type |-> type, re |-> re, session_id |-> NoSessionId, player_id |-> NoPlayer,
     game_id |-> NoGame, color |-> "None", move_no |-> 0]

\* Message::error
ErrorMsg(re) == Msg("Error", re)

\* Client::send_message: the message is put on the client's outbound channel
SendMessage(out, c, msg) == [out EXCEPT ![c] = Append(@, msg)]

\* ClientManager::get_client_by_player
GetClientByPlayer(pc, cs, player_id) ==
    IF pc[player_id] # NoClient /\ pc[player_id] \in cs THEN pc[player_id] ELSE NoClient

\* ClientManager::remove_client: the index entries removed are those of the
\* player id and session id recorded in the client's ClientInfo
RemoveClient(st, c) ==
    IF c \notin st.clients THEN st
    ELSE [clients |-> st.clients \ {c},
          player_clients |->
              IF client_info[c].player_id # NoPlayer
              THEN [st.player_clients EXCEPT ![client_info[c].player_id] = NoClient]
              ELSE st.player_clients,
          session_clients |->
              IF client_info[c].session_id # NoSessionId
              THEN [st.session_clients EXCEPT ![client_info[c].session_id] = NoClient]
              ELSE st.session_clients]

RECURSIVE RemoveClients(_, _)
\* The loop of ClientManager::cleanup_disconnected_clients
RemoveClients(st, ids) ==
    IF ids = {} THEN st
    ELSE LET c == CHOOSE x \in ids : TRUE
         IN RemoveClients(RemoveClient(st, c), ids \ {c})

\* A request read from a connection: its type and the fields of its payload
Req(type, player_name, chess_move) ==
    [type |-> type, player_name |-> player_name, game_id |-> "g1",
     color_preference |-> NoColor, chess_move |-> chess_move]

NoMove == MoveNew(NoPos, NoPos)

ConnectReq(player_name) == Req("Connect", player_name, NoMove)

AuthenticateReq(player_name) == Req("Authenticate", player_name, NoMove)

CreateGameReq == Req("CreateGame", NoName, NoMove)

JoinGameReq == Req("JoinGame", NoName, NoMove)

\* MakeMove with the move from (f1, r1) to (f2, r2)
MakeMoveReq(f1, r1, f2, r2) == Req("MakeMove", NoName, MoveNew(P(f1, r1), P(f2, r2)))

PingReq == Req("Ping", NoName, NoMove)

\* How many Ping requests a guest sends
MaxPings == 31

\* What the clients send, connection by connection: c1 is the client of p1,
\* who creates the game and plays e2e4 (or the invalid e2e5); c2 is the client
\* of p2 or of a guest, who joins it and plays e7e5, or of a guest who sends
\* Ping after Ping
Scripts(c) ==
    IF c = "c1"
    THEN {<<ConnectReq("p1"), CreateGameReq, MakeMoveReq(4, 1, 4, 3),
            MakeMoveReq(6, 0, 5, 2)>>,
          <<ConnectReq("p1"), AuthenticateReq("p1"), CreateGameReq,
            MakeMoveReq(4, 1, 4, 4)>>,
          <<AuthenticateReq("p1"), CreateGameReq>>,
          <<MakeMoveReq(4, 1, 4, 3)>>}
    ELSE {<<ConnectReq("p2"), JoinGameReq, MakeMoveReq(4, 6, 4, 4)>>,
          <<ConnectReq("p2"), AuthenticateReq("p2"), JoinGameReq>>,
          <<ConnectReq(NoName), JoinGameReq, MakeMoveReq(4, 6, 4, 4)>>,
          <<AuthenticateReq("p2"), MakeMoveReq(4, 6, 4, 4)>>,
          <<ConnectReq(NoName)>> \o [i \in 1..MaxPings |-> PingReq]}

\* Every request of the scripts
Requests == UNION {UNION {{line[i] : i \in 1..Len(line)} : line \in Scripts(c)} : c \in Conns}

\* The names under which players register with the PlayerManager
Members == Names \cup {"p3"}

\* No Player of that name in PlayerManager.players
NoStats == [rating |-> 0, status |-> "None"]

\* Player::new: PlayerStats::default and PlayerStatus::Online
PlayerNew == [rating |-> 1200, status |-> "Online"]

\* PlayerManager::register_player(name) on the players ps: a name already
\* registered is refused and nothing changes
Registered(ps, name) ==
    IF ps[name] # NoStats THEN ps ELSE [ps EXCEPT ![name] = PlayerNew]

\* ChessServer::new: the server is not running, no task is started; accept,
\* cleanup, uptime and stop are the positions of the accept loop, of the two
\* cleanup loops and of stop(); refused holds the connections that were shut
\* down by the accept loop
ServerNew ==
    [is_running |-> FALSE, accept |-> "Idle", cleanup |-> "None", uptime |-> "None",
     stop |-> "None", refused |-> {}, began_running |-> FALSE,
     total_connections |-> 0, peak_concurrent_connections |-> 0]

\* ClientManager::new, PlayerManager::new, GameManager::new, ServerStatistics
NetInitVars ==
    /\ clients = {}
    /\ client_info = [c \in Conns |-> NoClientInfo]
    /\ client_session = [c \in Conns |-> NoSession]
    /\ player_clients = [p \in PlayerIds |-> NoClient]
    /\ session_clients = [i \in 1..MaxIds |-> NoClient]
    /\ registered = {}
    /\ current_games = [p \in Names |-> {}]
    /\ sessions = <<>>
    /\ player_sessions = [p \in PlayerIds |-> NoSessionId]
    /\ games = {}
    /\ player_games = [p \in PlayerIds |-> <<>>]
    /\ statistics = [total_games_created |-> 0, total_moves_player |-> 0,
                     total_messages_processed |-> 0]
    /\ outbound = [c \in Conns |-> <<>>]
    /\ tasks = {}
    /\ received = [c \in Conns |-> <<>>]
    /\ ip_sessions = [ip \in Ips |-> <<>>]
    /\ now = 0
    /\ calls = <<>>
    /\ writer = [c \in Conns |-> "None"]
    /\ reader = [c \in Conns |-> "None"]
    /\ server = ServerNew
    /\ player_stats = [p \in Members |-> NoStats]

(***************************************************************************)
(* State machine                                                           *)
(***************************************************************************)
\* GameState::new, then add_player("p1", None) and add_player("p2", None)
Init ==
    /\ board = BoardNew
    /\ result = Ongoing
    /\ move_history = <<>>
    /\ position_history = <<ToFen(BoardNew)>>
    /\ white_player = "p1"
    /\ black_player = "p2"
    /\ last_call = [op |-> "add_player", ok |-> TRUE]
    /\ NetInitVars

\* The Err returns of GameState::make_move
MakeMoveFails(player_id, m) ==
    \/ result # Ongoing
    \/ GetPlayerColor(white_player, black_player, player_id) = NoColor
    \/ GetPlayerColor(white_player, black_player, player_id) # board.to_move
    \/ ~IsValidMove(board, m)

\* A make_move that does not test whose turn it is
GameMakeMoveAnyTurn(player_id, m) ==
    IF \/ result # Ongoing
       \/ GetPlayerColor(white_player, black_player, player_id) = NoColor
       \/ ~IsValidMove(board, m)
    THEN /\ last_call' = [op |-> "make_move", ok |-> FALSE]
         /\ UNCHANGED <<board, result, move_history, position_history,
                        white_player, black_player>>
    ELSE /\ board' = MakeMove(board, m).board
         /\ move_history' = Append(move_history, m)
         /\ position_history' = Append(position_history, ToFen(board'))
         /\ result' = CheckGameEnd(board', position_history', result)
         /\ last_call' = [op |-> "make_move", ok |-> TRUE]
         /\ UNCHANGED <<white_player, black_player>>

\* GameState::make_move(player_id, chess_move)
GameMakeMove(player_id, m) ==
    IF MakeMoveFails(player_id, m) \/ ~MakeMove(board, m).ok
    THEN /\ last_call' = [op |-> "make_move", ok |-> FALSE]
         /\ UNCHANGED <<board, result, move_history, position_history,
                        white_player, black_player>>
    ELSE /\ board' = MakeMove(board, m).board
         /\ move_history' = Append(move_history, m)
         /\ position_history' = Append(position_history, ToFen(board'))
         /\ result' = CheckGameEnd(board', position_history', result)
         /\ last_call' = [op |-> "make_move", ok |-> TRUE]
         /\ UNCHANGED <<white_player, black_player>>

\* A player sends a MakeMove request with a move of the pool
MakeMoveRequest(player_id, m) ==
    /\ OffBook(move_history) < MaxOffBook \/ MakeMoveFails(player_id, m)
    /\ GameMakeMove(player_id, m)
    /\ UNCHANGED net_vars

\* GameState::is_player_in_game
IsPlayerInGame(w, b, player_id) == w = player_id \/ b = player_id

\* GameState::offer_draw(player_id)
GameOfferDraw(player_id) ==
    IF result # Ongoing \/ ~IsPlayerInGame(white_player, black_player, player_id)
    THEN /\ last_call' = [op |-> "offer_draw", ok |-> FALSE]
         /\ UNCHANGED <<board, result, move_history, position_history,
                        white_player, black_player>>
    ELSE /\ result' = Draw("Agreement")
         /\ last_call' = [op |-> "offer_draw", ok |-> TRUE]
         /\ UNCHANGED <<board, move_history, position_history,
                        white_player, black_player>>

\* A player offers a draw
OfferDraw(player_id) == GameOfferDraw(player_id) /\ UNCHANGED net_vars

\* A resign that does not test whether the game is over
GameResignAnyResult(player_id) ==
    IF GetPlayerColor(white_player, black_player, player_id) = NoColor
    THEN /\ last_call' = [op |-> "resign", ok |-> FALSE]
         /\ UNCHANGED <<board, result, move_history, position_history,
                        white_player, black_player>>
    ELSE /\ result' = Resignation(GetPlayerColor(white_player, black_player, player_id))
         /\ last_call' = [op |-> "resign", ok |-> TRUE]
         /\ UNCHANGED <<board, move_history, position_history,
                        white_player, black_player>>

\* GameState::resign(player_id)
GameResign(player_id) ==
    IF \/ result # Ongoing
       \/ GetPlayerColor(white_player, black_player, player_id) = NoColor
    THEN /\ last_call' = [op |-> "resign", ok |-> FALSE]
         /\ UNCHANGED <<board, result, move_history, position_history,
                        white_player, black_player>>
    ELSE /\ result' = Resignation(GetPlayerColor(white_player, black_player, player_id))
         /\ last_call' = [op |-> "resign", ok |-> TRUE]
         /\ UNCHANGED <<board, move_history, position_history,
                        white_player, black_player>>

\* A player resigns, once a line of the book has been played to its end
Resign(player_id) ==
    /\ move_history \in Book
    /\ GameResign(player_id)
    /\ UNCHANGED net_vars

\* GameState::timeout(player_id)
GameTimeout(player_id) ==
    IF \/ result # Ongoing
       \/ GetPlayerColor(white_player, black_player, player_id) = NoColor
    THEN /\ last_call' = [op |-> "timeout", ok |-> FALSE]
         /\ UNCHANGED <<board, result, move_history, position_history,
                        white_player, black_player>>
    ELSE /\ result' = Timeout(GetPlayerColor(white_player, black_player, player_id))
         /\ last_call' = [op |-> "timeout", ok |-> TRUE]
         /\ UNCHANGED <<board, move_history, position_history,
                        white_player, black_player>>

\* The clock of a player runs out at the end of a line of the book
TimeoutCall(player_id) ==
    /\ move_history \in Book
    /\ GameTimeout(player_id)
    /\ UNCHANGED net_vars

Next ==
    \/ \E player_id \in Players, m \in Pool : MakeMoveRequest(player_id, m)
    \/ \E player_id \in Players : OfferDraw(player_id)
    \/ \E player_id \in Players : Resign(player_id)
    \/ \E player_id \in Players : TimeoutCall(player_id)

Spec == Init /\ [][Next]_vars

(***************************************************************************)
(* server.rs: ChessServer, ServerMessageHandler                             *)
(***************************************************************************)
\* A server with no connection and no game
NetInit ==
    /\ board = BoardNew
    /\ result = Ongoing
    /\ move_history = <<>>
    /\ position_history = <<ToFen(BoardNew)>>
    /\ white_player = NoPlayer
    /\ black_player = NoPlayer
    /\ last_call = [op |-> "new", ok |-> TRUE]
    /\ NetInitVars

\* Client::set_state(state)
SetState(info, c, state) == [info EXCEPT ![c].state = state]

\* Client::is_connected
IsConnected(c) == client_info[c].state # "Disconnected"

\* The connection is open: the task reading its messages is running
Live(c) == reader[c] = "Running"

\* handle_message: the message is counted, whatever its type
Processed ==
    [statistics EXCEPT !.total_messages_processed = @ + 1]

\* handle_incoming_messages reads the next request of the connection
Reads(c, req) ==
    /\ Live(c)
    /\ \E line \in Scripts(c) : IsPrefix(Append(received[c], req), line)
    /\ received' = [received EXCEPT ![c] = Append(@, req)]

\* The SessionManager of the PlayerManager
Manager ==
    [sessions |-> sessions, player_sessions |-> player_sessions,
     ip_sessions |-> ip_sessions]

\* ClientInfo.address: the address the connection comes from
Addr(c) == IF c = "c1" THEN "ip1" ELSE "ip2"

\* The session handle_incoming_messages reads from the client and passes on
DispatchedSession(c) == client_session[c]

\* ChessServer::handle_new_client: Client::new, then ClientManager::add_client
HandleNewClient(c) ==
    /\ client_info[c].state = "None"
    /\ client_info' = [client_info EXCEPT ![c].state = "Connected"]
    /\ clients' = clients \cup {c}
    /\ writer' = [writer EXCEPT ![c] = "Running"]
    /\ reader' = [reader EXCEPT ![c] = "Running"]
    /\ UNCHANGED <<client_session, player_clients, session_clients, registered,
                   current_games, sessions, player_sessions, games, player_games,
                   statistics, outbound, tasks, received>>
    /\ UNCHANGED <<ip_sessions, now, calls, player_stats>>
    /\ UNCHANGED game_vars

\* A connection is accepted by a server that is far from max_connections
Accept(c) == HandleNewClient(c) /\ UNCHANGED server

\* The peer closes the connection: handle_incoming_messages leaves its loop
Close(c) ==
    /\ Live(c)
    /\ client_info' = [client_info EXCEPT ![c].state = "Disconnected"]
    /\ reader' = [reader EXCEPT ![c] = "Exited"]
    /\ UNCHANGED <<clients, client_session, player_clients, session_clients, registered,
                   current_games, sessions, player_sessions, games, player_games,
                   statistics, outbound, tasks, received>>
    /\ UNCHANGED <<ip_sessions, now, calls, writer, server, player_stats>>
    /\ UNCHANGED game_vars

\* Client::set_session, with a copy of the session associated with the client
SetSession(c, session_id) ==
    /\ Live(c)
    /\ session_id \in 1..Len(sessions)
    /\ session_clients[session_id] = c
    /\ client_session' = [client_session EXCEPT ![c] = sessions[session_id]]
    /\ client_info' =
          [client_info EXCEPT
              ![c] = [state |-> IF sessions[session_id].is_authenticated
                                THEN "Authenticated" ELSE @.state,
                      session_id |-> session_id,
                      player_id |-> sessions[session_id].player_id]]
    /\ UNCHANGED <<clients, player_clients, session_clients, registered,
                   current_games, sessions, player_sessions, games, player_games,
                   statistics, outbound, tasks, received>>
    /\ UNCHANGED <<ip_sessions, now, calls, writer, reader, server, player_stats>>
    /\ UNCHANGED game_vars

\* ClientManager::cleanup_disconnected_clients
CleanupDisconnected ==
    LET disconnected_ids == {c \in clients : ~IsConnected(c)}
        st == RemoveClients([clients |-> clients, player_clients |-> player_clients,
                             session_clients |-> session_clients], disconnected_ids)
    IN /\ disconnected_ids # {}
       /\ clients' = st.clients
       /\ player_clients' = st.player_clients
       /\ session_clients' = st.session_clients
       /\ UNCHANGED <<client_info, client_session, registered, current_games, sessions,
                      player_sessions, games, player_games, statistics, outbound, tasks,
                      received>>
       /\ UNCHANGED <<ip_sessions, now, calls, writer, reader, server, player_stats>>
       /\ UNCHANGED game_vars

\* ServerMessageHandler::handle_connect
HandleConnect(c, player_name) ==
    /\ Reads(c, ConnectReq(player_name))
    /\ player_name = NoName => Cardinality(GuestsInUse(player_sessions)) < MaxGuests
    /\ LET made == IF player_name # NoName
                   THEN CreateSession(Manager, player_name, Addr(c), now)
                   ELSE CreateGuestSession(Manager, Addr(c), now)
           player_id == made.sm.sessions[made.session_id].player_id
       IN /\ Len(made.sm.sessions) <= MaxSessions
          /\ registered' = IF player_name # NoName
                           THEN registered \cup {player_name} ELSE registered
          /\ player_stats' = IF player_name # NoName
                             THEN Registered(player_stats, player_name)
                             ELSE player_stats
          /\ sessions' = made.sm.sessions
          /\ player_sessions' = made.sm.player_sessions
          /\ ip_sessions' = made.sm.ip_sessions
          /\ IF ~made.ok \/ c \notin clients
             THEN /\ outbound' = SendMessage(outbound, c, ErrorMsg("Connect"))
                  /\ UNCHANGED <<session_clients, player_clients>>
             ELSE /\ session_clients' = [session_clients EXCEPT ![made.session_id] = c]
                  /\ player_clients' = [player_clients EXCEPT ![player_id] = c]
                  /\ outbound' = SendMessage(outbound, c,
                        [Msg("ConnectResponse", "Connect") EXCEPT
                            !.session_id = made.session_id, !.player_id = player_id])
    /\ statistics' = Processed
    /\ UNCHANGED <<clients, client_info, client_session, current_games,
                   games, player_games, tasks>>
    /\ UNCHANGED <<now, calls, writer, reader, server>>
    /\ UNCHANGED game_vars

\* ServerMessageHandler::handle_authenticate
HandleAuthenticate(c, player_name) ==
    /\ Reads(c, AuthenticateReq(player_name))
    /\ registered' = registered \cup {player_name}
    /\ player_stats' = Registered(player_stats, player_name)
    /\ LET session_id == client_info[c].session_id
           done == AuthenticateSession(Manager, session_id, player_name, now)
       IN IF session_id # NoSessionId /\ ~done.ok
          THEN /\ outbound' = SendMessage(outbound, c, ErrorMsg("Authenticate"))
               /\ UNCHANGED <<sessions, player_sessions>>
          ELSE /\ sessions' = IF session_id # NoSessionId THEN done.sm.sessions ELSE sessions
               /\ player_sessions' = IF session_id # NoSessionId
                                     THEN done.sm.player_sessions ELSE player_sessions
               /\ outbound' = SendMessage(outbound, c,
                     [Msg("AuthenticateResponse", "Authenticate") EXCEPT
                         !.player_id = player_name])
    /\ statistics' = Processed
    /\ UNCHANGED <<clients, client_info, client_session, player_clients, session_clients,
                   current_games, games, player_games, tasks>>
    /\ UNCHANGED <<ip_sessions, now, calls, writer, reader, server>>
    /\ UNCHANGED game_vars

\* ServerMessageHandler::handle_message on a Ping
HandlePing(c) ==
    /\ Reads(c, PingReq)
    /\ outbound' = SendMessage(outbound, c, Msg("Pong", "Ping"))
    /\ statistics' = Processed
    /\ UNCHANGED <<clients, client_info, client_session, player_clients, session_clients,
                   registered, current_games, sessions, player_sessions, games,
                   player_games, tasks>>
    /\ UNCHANGED <<ip_sessions, now, calls, writer, reader, server, player_stats>>
    /\ UNCHANGED game_vars

\* GameState::add_player on the seats w and b; ok = FALSE models the Err return
AddPlayer(w, b, player_id, color) ==
    IF color = "White"
    THEN IF w # NoPlayer THEN [ok |-> FALSE, white |-> w, black |-> b, color |-> NoColor]
         ELSE [ok |-> TRUE, white |-> player_id, black |-> b, color |-> "White"]
    ELSE IF color = "Black"
    THEN IF b # NoPlayer THEN [ok |-> FALSE, white |-> w, black |-> b, color |-> NoColor]
         ELSE [ok |-> TRUE, white |-> w, black |-> player_id, color |-> "Black"]
    ELSE IF w = NoPlayer
    THEN [ok |-> TRUE, white |-> player_id, black |-> b, color |-> "White"]
    ELSE IF b = NoPlayer
    THEN [ok |-> TRUE, white |-> w, black |-> player_id, color |-> "Black"]
    ELSE [ok |-> FALSE, white |-> w, black |-> b, color |-> NoColor]

\* ServerMessageHandler::handle_create_game
HandleCreateGame(c, color_preference) ==
    /\ Reads(c, [CreateGameReq EXCEPT !.color_preference = color_preference])
    /\ LET session == DispatchedSession(c)
           game_id == CHOOSE g \in GameIds : g \notin games
           seated == AddPlayer(NoPlayer, NoPlayer, session.player_id, color_preference)
       IN IF session = NoSession \/ ~CanCreateGame(session)
          THEN /\ outbound' = SendMessage(outbound, c, ErrorMsg("CreateGame"))
               /\ statistics' = Processed
               /\ UNCHANGED <<games, player_games, current_games>>
               /\ UNCHANGED game_vars
          ELSE /\ games # GameIds
               /\ IF session.player_id \notin registered
                  THEN /\ outbound' = SendMessage(outbound, c, ErrorMsg("CreateGame"))
                       /\ statistics' = Processed
                       /\ UNCHANGED <<games, player_games, current_games>>
                       /\ UNCHANGED game_vars
                  ELSE /\ games' = games \cup {game_id}
                       /\ board' = BoardNew
                       /\ result' = Ongoing
                       /\ move_history' = <<>>
                       /\ position_history' = <<ToFen(BoardNew)>>
                       /\ white_player' = seated.white
                       /\ black_player' = seated.black
                       /\ last_call' = [op |-> "add_player", ok |-> TRUE]
                       /\ player_games' = [player_games EXCEPT
                                              ![session.player_id] = Append(@, game_id)]
                       /\ current_games' = [current_games EXCEPT
                                              ![session.player_id] = @ \cup {game_id}]
                       /\ statistics' = [Processed EXCEPT !.total_games_created = @ + 1]
                       /\ outbound' = SendMessage(outbound, c,
                             [Msg("CreateGameResponse", "CreateGame") EXCEPT
                                 !.game_id = game_id, !.color = seated.color])
    /\ UNCHANGED <<clients, client_info, client_session, player_clients, session_clients,
                   registered, sessions, player_sessions, tasks>>
    /\ UNCHANGED <<ip_sessions, now, calls, writer, reader, server, player_stats>>

\* ServerMessageHandler::handle_join_game
HandleJoinGame(c, game_id, color_preference) ==
    /\ Reads(c, [JoinGameReq EXCEPT !.game_id = game_id,
                                    !.color_preference = color_preference])
    /\ LET session == DispatchedSession(c)
           seated == AddPlayer(white_player, black_player, session.player_id,
                               color_preference)
       IN IF \/ session = NoSession \/ ~CanJoinGame(session)
             \/ game_id \notin games
             \/ ~seated.ok
          THEN /\ outbound' = SendMessage(outbound, c, ErrorMsg("JoinGame"))
               /\ UNCHANGED <<player_games, current_games>>
               /\ UNCHANGED game_vars
          ELSE /\ white_player' = seated.white
               /\ black_player' = seated.black
               /\ last_call' = [op |-> "add_player", ok |-> TRUE]
               /\ player_games' = [player_games EXCEPT
                                      ![session.player_id] = Append(@, game_id)]
               /\ UNCHANGED <<board, result, move_history, position_history>>
               /\ IF session.player_id \notin registered
                  THEN /\ outbound' = SendMessage(outbound, c, ErrorMsg("JoinGame"))
                       /\ UNCHANGED current_games
                  ELSE /\ current_games' = [current_games EXCEPT
                                              ![session.player_id] = @ \cup {game_id}]
                       /\ outbound' = SendMessage(outbound, c,
                             [Msg("JoinGameResponse", "JoinGame") EXCEPT
                                 !.game_id = game_id, !.color = seated.color])
    /\ statistics' = Processed
    /\ UNCHANGED <<clients, client_info, client_session, player_clients, session_clients,
                   registered, sessions, player_sessions, games, tasks>>
    /\ UNCHANGED <<ip_sessions, now, calls, writer, reader, server, player_stats>>

\* The players a GameUpdate is sent to: the seated players, White first
PlayerIdsOf(w, b) ==
    (IF w # NoPlayer THEN <<w>> ELSE <<>>) \o (IF b # NoPlayer THEN <<b>> ELSE <<>>)

\* ServerMessageHandler::handle_make_move, up to the spawn of the task that
\* sends the GameUpdate
HandleMakeMove(c, game_id, m) ==
    /\ Reads(c, [Req("MakeMove", NoName, m) EXCEPT !.game_id = game_id])
    /\ LET session == DispatchedSession(c)
       IN IF session = NoSession \/ game_id \notin games
          THEN /\ outbound' = SendMessage(outbound, c, ErrorMsg("MakeMove"))
               /\ statistics' = Processed
               /\ UNCHANGED tasks
               /\ UNCHANGED game_vars
          ELSE /\ GameMakeMove(session.player_id, m)
               /\ IF last_call'.ok
                  THEN /\ statistics' = [Processed EXCEPT !.total_moves_player = @ + 1]
                       /\ tasks' = tasks \cup
                             {[move_no |-> Len(move_history'),
                               player_ids |-> PlayerIdsOf(white_player, black_player)]}
                       /\ outbound' = SendMessage(outbound, c, Msg("Success", "MakeMove"))
                  ELSE /\ statistics' = Processed
                       /\ UNCHANGED tasks
                       /\ outbound' = SendMessage(outbound, c, ErrorMsg("MakeMove"))
    /\ UNCHANGED <<clients, client_info, client_session, player_clients, session_clients,
                   registered, current_games, sessions, player_sessions, games,
                   player_games>>
    /\ UNCHANGED <<ip_sessions, now, calls, writer, reader, server, player_stats>>

\* One turn of the loop of ClientManager::send_to_players in a spawned task
SendToPlayersStep(t) ==
    /\ t \in tasks
    /\ LET player_id == Head(t.player_ids)
           client == GetClientByPlayer(player_clients, clients, player_id)
           rest == Tail(t.player_ids)
       IN /\ outbound' =
                IF client # NoClient
                THEN SendMessage(outbound, client,
                        [Msg("GameUpdate", "None") EXCEPT !.move_no = t.move_no])
                ELSE outbound
          /\ tasks' = (tasks \ {t}) \cup
                         (IF rest # <<>> THEN {[t EXCEPT !.player_ids = rest]} ELSE {})
    /\ UNCHANGED <<clients, client_info, client_session, player_clients, session_clients,
                   registered, current_games, sessions, player_sessions, games,
                   player_games, statistics, received>>
    /\ UNCHANGED <<ip_sessions, now, calls, writer, reader, server, player_stats>>
    /\ UNCHANGED game_vars

\* The moves of the MakeMove requests
NetMoves == {req.chess_move : req \in {r \in Requests : r.type = "MakeMove"}}

NetNext ==
    \/ \E c \in Conns : Accept(c)
    \/ \E c \in Conns : Close(c)
    \/ \E c \in Conns, session_id \in 1..MaxSessions : SetSession(c, session_id)
    \/ CleanupDisconnected
    \/ \E c \in Conns, player_name \in Names \cup {NoName} : HandleConnect(c, player_name)
    \/ \E c \in Conns, player_name \in Names : HandleAuthenticate(c, player_name)
    \/ \E c \in Conns : HandlePing(c)
    \/ \E c \in Conns : HandleCreateGame(c, NoColor)
    \/ \E c \in Conns, game_id \in GameIds : HandleJoinGame(c, game_id, NoColor)
    \/ \E c \in Conns, game_id \in GameIds, m \in NetMoves : HandleMakeMove(c, game_id, m)
    \/ \E t \in tasks : SendToPlayersStep(t)

NetSpec == NetInit /\ [][NetNext]_vars

(***************************************************************************)
(* The session manager on its own: SessionSpec                              *)
(***************************************************************************)
\* How far the clock runs
MaxNow == 3

\* A call on the session manager and its arguments
Call(op, player_id, ip, session_id, cost) ==
    [op |-> op, player_id |-> player_id, ip |-> ip, session_id |-> session_id,
     cost |-> cost]

CreateSessionCall(player_id, ip) == Call("create_session", player_id, ip, NoSessionId, 0)

CreateGuestSessionCall(ip) == Call("create_guest_session", NoPlayer, ip, NoSessionId, 0)

AuthenticateSessionCall(session_id, player_id) ==
    Call("authenticate_session", player_id, NoIp, session_id, 0)

RemoveSessionCall(session_id) == Call("remove_session", NoPlayer, NoIp, session_id, 0)

CanPerformActionCall(session_id, cost) ==
    Call("can_perform_action", NoPlayer, NoIp, session_id, cost)

\* n times the call
Repeat(call, n) == [i \in 1..n |-> call]

\* The calls made on the session manager, run by run: eleven guests of one
\* address of whom six authenticate; a player who connects twice and another
\* who authenticates as the first; a guest who authenticates and leaves; four
\* guests and two players of one address; a guest who acts 31 times; a player
\* who acts 21 times at the cost of three tokens
Runs ==
    {Repeat(CreateGuestSessionCall("ip1"), 11)
        \o [i \in 1..6 |-> AuthenticateSessionCall(i, "p1")],
     <<CreateSessionCall("p1", "ip1"), CreateSessionCall("p1", "ip1"),
       CreateSessionCall("p2", "ip1"), AuthenticateSessionCall(2, "p1"),
       RemoveSessionCall(1), CreateSessionCall("p2", "ip2"),
       CreateSessionCall("p1", "ip2")>>,
     <<CreateGuestSessionCall("ip2"), AuthenticateSessionCall(1, "p2"),
       RemoveSessionCall(1), CreateSessionCall("p2", "ip2"), RemoveSessionCall(2)>>,
     Repeat(CreateGuestSessionCall("ip1"), 4)
        \o <<CreateSessionCall("p1", "ip1"), CreateSessionCall("p2", "ip1"),
             RemoveSessionCall(3), CreateSessionCall("p2", "ip1")>>,
     <<CreateGuestSessionCall("ip1")>> \o Repeat(CanPerformActionCall(1, Tok(1)), 31),
     <<CreateSessionCall("p1", "ip2")>> \o Repeat(CanPerformActionCall(1, Tok(3)), 21)}

\* The next call of a run is made
Calls(call) ==
    /\ \E run \in Runs : IsPrefix(Append(calls, call), run)
    /\ calls' = Append(calls, call)

\* Everything but the session manager, the clock and the last call
other_vars ==
    <<board, result, move_history, position_history, white_player, black_player,
      clients, client_info, client_session, player_clients, session_clients,
      registered, current_games, games, player_games, statistics, outbound, tasks,
      received, writer, reader, server, player_stats>>

\* SessionManager::new
SessionInit == NetInit

\* The manager becomes sm
Becomes(sm) ==
    /\ sessions' = sm.sessions
    /\ player_sessions' = sm.player_sessions
    /\ ip_sessions' = sm.ip_sessions

\* A second passes
Tick ==
    /\ now < MaxNow
    /\ now' = now + 1
    /\ UNCHANGED <<sessions, player_sessions, ip_sessions, calls, last_call>>
    /\ UNCHANGED other_vars

\* SessionManager::create_session(player_id, addr)
CreateSessionOp(player_id, ip) ==
    /\ Calls(CreateSessionCall(player_id, ip))
    /\ LET made == CreateSession(Manager, player_id, ip, now)
       IN /\ Becomes(made.sm)
          /\ last_call' = [op |-> "create_session", ok |-> made.ok,
                           ret |-> made.session_id]
    /\ UNCHANGED now
    /\ UNCHANGED other_vars

\* SessionManager::create_guest_session(addr)
CreateGuestSessionOp(ip) ==
    /\ Calls(CreateGuestSessionCall(ip))
    /\ LET made == CreateGuestSession(Manager, ip, now)
       IN /\ Becomes(made.sm)
          /\ last_call' = [op |-> "create_guest_session", ok |-> made.ok,
                           ret |-> made.session_id]
    /\ UNCHANGED now
    /\ UNCHANGED other_vars

\* SessionManager::authenticate_session(session_id, player_id)
AuthenticateSessionOp(session_id, player_id) ==
    /\ Calls(AuthenticateSessionCall(session_id, player_id))
    /\ LET done == AuthenticateSession(Manager, session_id, player_id, now)
       IN /\ Becomes(done.sm)
          /\ last_call' = [op |-> "authenticate_session", ok |-> done.ok,
                           ret |-> session_id]
    /\ UNCHANGED now
    /\ UNCHANGED other_vars

\* SessionManager::remove_session(session_id)
RemoveSessionOp(session_id) ==
    /\ Calls(RemoveSessionCall(session_id))
    /\ Becomes(RemoveSession(Manager, session_id))
    /\ last_call' = [op |-> "remove_session", ok |-> HasSession(Manager, session_id),
                     ret |-> session_id]
    /\ UNCHANGED now
    /\ UNCHANGED other_vars

\* SessionManager::cleanup_expired_sessions
CleanupExpiredSessionsOp ==
    /\ LET done == CleanupExpiredSessions(Manager, now)
       IN /\ Becomes(done.sm)
          /\ last_call' = [op |-> "cleanup_expired_sessions", ok |-> TRUE,
                           ret |-> done.cnt]
    /\ UNCHANGED <<now, calls>>
    /\ UNCHANGED other_vars

\* get_session_mut(session_id), then Session::can_perform_action(cost)
CanPerformActionOp(session_id, cost) ==
    /\ Calls(CanPerformActionCall(session_id, cost))
    /\ IF HasSession(Manager, session_id)
       THEN LET done == CanPerformAction(sessions[session_id], cost, now)
            IN /\ sessions' = [sessions EXCEPT ![session_id] = done.session]
               /\ last_call' = [op |-> "can_perform_action", ok |-> done.ok,
                                ret |-> session_id]
       ELSE /\ UNCHANGED sessions
            /\ last_call' = [op |-> "get_session_mut", ok |-> FALSE, ret |-> session_id]
    /\ UNCHANGED <<player_sessions, ip_sessions, now>>
    /\ UNCHANGED other_vars

\* The token amounts of the runs
Costs == {Tok(1), Tok(3)}

SessionNext ==
    \/ Tick
    \/ \E player_id \in Names, ip \in Ips : CreateSessionOp(player_id, ip)
    \/ \E ip \in Ips : CreateGuestSessionOp(ip)
    \/ \E session_id \in 1..MaxIds, player_id \in Names :
          AuthenticateSessionOp(session_id, player_id)
    \/ \E session_id \in 1..MaxIds : RemoveSessionOp(session_id)
    \/ CleanupExpiredSessionsOp
    \/ \E session_id \in 1..MaxIds, cost \in Costs : CanPerformActionOp(session_id, cost)

SessionSpec == SessionInit /\ [][SessionNext]_vars

(***************************************************************************)
(* The two tasks of each client: PumpSpec                                   *)
(***************************************************************************)
\* protocol.rs: MAX_MESSAGE_SIZE
MaxMessageSize == 1048576

\* protocol.rs: PROTOCOL_VERSION
ProtocolVersion == "1.0"

\* A line read from the connection: its length in bytes, whether it is the
\* JSON of a Message, and the version and type of that message
Line(size, is_json, version, type) ==
    [size |-> size, is_json |-> is_json, version |-> version, type |-> type]

PingLine == Line(40, TRUE, "1.0", "Ping")

HeartbeatLine == Line(45, TRUE, "1.0", "Heartbeat")

EmptyLine == Line(0, FALSE, "None", "None")

MalformedLine == Line(7, FALSE, "None", "None")

TooLargeLine == Line(MaxMessageSize + 1, TRUE, "1.0", "Ping")

OtherVersionLine == Line(40, TRUE, "2.0", "Ping")

\* A from_json that does not compare the version
FromJsonAnyVersion(line) ==
    IF line.size > MaxMessageSize THEN [ok |-> FALSE, type |-> "MessageTooLarge"]
    ELSE IF ~line.is_json THEN [ok |-> FALSE, type |-> "Serialization"]
    ELSE [ok |-> TRUE, type |-> line.type]

\* Message::from_json; ok = FALSE models the Err return
FromJson(line) ==
    IF line.size > MaxMessageSize THEN [ok |-> FALSE, type |-> "MessageTooLarge"]
    ELSE IF ~line.is_json THEN [ok |-> FALSE, type |-> "Serialization"]
    ELSE IF line.version # ProtocolVersion
    THEN [ok |-> FALSE, type |-> "ProtocolVersionMismatch"]
    ELSE [ok |-> TRUE, type |-> line.type]

\* What the peers write, connection by connection
Lines(c) ==
    IF c = "c1"
    THEN {<<PingLine, PingLine, PingLine, HeartbeatLine>>,
          <<MalformedLine, PingLine, TooLargeLine, HeartbeatLine>>}
    ELSE {<<OtherVersionLine, PingLine>>,
          <<HeartbeatLine, EmptyLine, MalformedLine>>}

\* Every line of the peers
AllLines == UNION {UNION {{run[i] : i \in 1..Len(run)} : run \in Lines(c)} : c \in Conns}

\* How many broadcasts are made
MaxBroadcasts == 1

\* mpsc::UnboundedSender::send on the channel of c succeeds while the
\* receiver, which the writing task owns, has not been dropped
SendOk(c) == writer[c] = "Running"

\* handle_incoming_messages: sender.send(msg), and the break out of the loop
\* when it fails
ReaderSends(c, msg) ==
    IF SendOk(c)
    THEN /\ outbound' = SendMessage(outbound, c, msg)
         /\ UNCHANGED <<client_info, reader>>
    ELSE /\ client_info' = [client_info EXCEPT ![c].state = "Disconnected"]
         /\ reader' = [reader EXCEPT ![c] = "Exited"]
         /\ UNCHANGED outbound

\* One turn of the loop of handle_incoming_messages on a line that was read
ReadLine(c, line) ==
    /\ Live(c)
    /\ \E run \in Lines(c) : IsPrefix(Append(received[c], line), run)
    /\ received' = [received EXCEPT ![c] = Append(@, line)]
    /\ IF line.size = 0
       THEN UNCHANGED <<outbound, client_info, reader, statistics>>
       ELSE LET message == FromJson(line)
            IN IF ~message.ok
               THEN /\ ReaderSends(c, ErrorMsg("None"))
                    /\ UNCHANGED statistics
               ELSE /\ statistics' = Processed
                    /\ IF message.type = "Ping"
                       THEN ReaderSends(c, Msg("Pong", "Ping"))
                       ELSE UNCHANGED <<outbound, client_info, reader>>
    /\ UNCHANGED <<clients, client_session, player_clients, session_clients, registered,
                   current_games, sessions, player_sessions, games, player_games, tasks>>
    /\ UNCHANGED <<ip_sessions, now, calls, writer, server, player_stats>>
    /\ UNCHANGED game_vars

\* One turn of the loop of handle_outgoing_messages: a message is received
\* from the channel, written and flushed
WriteMessage(c) ==
    /\ writer[c] = "Running"
    /\ outbound[c] # <<>>
    /\ outbound' = [outbound EXCEPT ![c] = Tail(@)]
    /\ UNCHANGED <<clients, client_info, client_session, player_clients, session_clients,
                   registered, current_games, sessions, player_sessions, games,
                   player_games, statistics, tasks, received>>
    /\ UNCHANGED <<ip_sessions, now, calls, writer, reader, server, player_stats>>
    /\ UNCHANGED game_vars

\* write_all or flush fails: handle_outgoing_messages leaves its loop and the
\* receiver is dropped with the messages still in the channel
WriteFails(c) ==
    /\ writer[c] = "Running"
    /\ outbound[c] # <<>>
    /\ writer' = [writer EXCEPT ![c] = "Exited"]
    /\ outbound' = [outbound EXCEPT ![c] = <<>>]
    /\ UNCHANGED <<clients, client_info, client_session, player_clients, session_clients,
                   registered, current_games, sessions, player_sessions, games,
                   player_games, statistics, tasks, received>>
    /\ UNCHANGED <<ip_sessions, now, calls, reader, server, player_stats>>
    /\ UNCHANGED game_vars

\* receiver.recv() returns None: the reading task has ended and the Client
\* has been removed, so every sender of the channel is gone
WriterEnds(c) ==
    /\ writer[c] = "Running"
    /\ outbound[c] = <<>>
    /\ reader[c] = "Exited"
    /\ c \notin clients
    /\ writer' = [writer EXCEPT ![c] = "Exited"]
    /\ UNCHANGED <<clients, client_info, client_session, player_clients, session_clients,
                   registered, current_games, sessions, player_sessions, games,
                   player_games, statistics, outbound, tasks, received>>
    /\ UNCHANGED <<ip_sessions, now, calls, reader, server, player_stats>>
    /\ UNCHANGED game_vars

RECURSIVE BroadcastStoppingAtFailure(_, _, _)
\* A broadcast loop that returns at the first send that fails
BroadcastStoppingAtFailure(out, ids, msg) ==
    IF ids = {} THEN [outbound |-> out, sent_count |-> 0, lost |-> {}]
    ELSE LET c == CHOOSE x \in ids : TRUE
         IN IF SendOk(c)
            THEN LET rest == BroadcastStoppingAtFailure(SendMessage(out, c, msg),
                                                        ids \ {c}, msg)
                 IN [rest EXCEPT !.sent_count = @ + 1]
            ELSE [outbound |-> out, sent_count |-> 0, lost |-> {c}]

RECURSIVE BroadcastLoop(_, _, _)
\* The loop of ClientManager::broadcast_message over the clients ids: the
\* channels afterwards, the count of the sends that succeeded and the clients
\* whose send returned ConnectionLost
BroadcastLoop(out, ids, msg) ==
    IF ids = {} THEN [outbound |-> out, sent_count |-> 0, lost |-> {}]
    ELSE LET c == CHOOSE x \in ids : TRUE
         IN IF SendOk(c)
            THEN LET rest == BroadcastLoop(SendMessage(out, c, msg), ids \ {c}, msg)
                 IN [rest EXCEPT !.sent_count = @ + 1]
            ELSE LET rest == BroadcastLoop(out, ids \ {c}, msg)
                 IN [rest EXCEPT !.lost = @ \cup {c}]

\* ClientManager::broadcast_message(message)
BroadcastMessage ==
    /\ Len(calls) < MaxBroadcasts
    /\ clients # {}
    /\ LET done == BroadcastLoop(outbound, clients, Msg("Disconnect", "None"))
       IN /\ outbound' = done.outbound
          /\ last_call' = [op |-> "broadcast_message", ok |-> TRUE,
                           ret |-> done.sent_count, lost |-> done.lost]
    /\ calls' = Append(calls, [op |-> "broadcast_message"])
    /\ UNCHANGED <<board, result, move_history, position_history, white_player,
                   black_player>>
    /\ UNCHANGED <<clients, client_info, client_session, player_clients, session_clients,
                   registered, current_games, sessions, player_sessions, games,
                   player_games, statistics, tasks, received>>
    /\ UNCHANGED <<ip_sessions, now, writer, reader, server, player_stats>>

\* ClientManager::disconnect_client(client_id), which calls Client::disconnect
\* on a client of the registry; for an unknown client it returns an error and
\* changes nothing
DisconnectClient(c) ==
    /\ c \in clients
    /\ client_info' = SetState(client_info, c, "Disconnecting")
    /\ UNCHANGED <<clients, client_session, player_clients, session_clients, registered,
                   current_games, sessions, player_sessions, games, player_games,
                   statistics, outbound, tasks, received>>
    /\ UNCHANGED <<ip_sessions, now, calls, writer, reader, server, player_stats>>
    /\ UNCHANGED game_vars

\* A server with no connection
PumpInit == NetInit

PumpNext ==
    \/ \E c \in Conns : Accept(c)
    \/ \E c \in Conns : Close(c)
    \/ \E c \in Conns, line \in AllLines : ReadLine(c, line)
    \/ \E c \in Conns : WriteMessage(c)
    \/ \E c \in Conns : WriteFails(c)
    \/ \E c \in Conns : WriterEnds(c)
    \/ BroadcastMessage
    \/ CleanupDisconnected
    \/ \E c \in Conns : DisconnectClient(c)

PumpSpec == PumpInit /\ [][PumpNext]_vars

(***************************************************************************)
(* Properties                                                              *)
(***************************************************************************)
Last(h) == h[Len(h)]

Front(h) == SubSeq(h, 1, Len(h) - 1)

RECURSIVE BoardAfter(_)
\* The board after the moves of h have been applied to the start position
BoardAfter(h) ==
    IF h = <<>> THEN BoardNew ELSE MakeMove(BoardAfter(Front(h)), Last(h)).board

\* The color that made the last move of the history
Mover == IF Len(move_history) % 2 = 1 THEN "White" ELSE "Black"

KingCount(b, c) ==
    Cardinality({pos \in AllPositions :
        GetPiece(b, pos).piece_type = "King" /\ GetPiece(b, pos).color = c})

\* Every value a Move can take
AllMoves ==
    [from : AllPositions, to : AllPositions, promotion : PieceTypes \cup {NoPromotion},
     is_castle : BOOLEAN, is_en_passant : BOOLEAN]

\* C1: on every board reached from the start position by accepted moves there
\* is exactly one white king and exactly one black king.
C1_OneKingEach == KingCount(board, "White") = 1 /\ KingCount(board, "Black") = 1

\* C2: after a move that is_valid_move accepted and make_move applied, the
\* side that moved is not in check.
C2_MoverNotInCheck ==
    Len(move_history) > 0 => ~IsInCheck(board, Mover)

\* C2 witness: the mover was in check before the move and has left it.
C2_LeftCheck ==
    /\ Len(move_history) > 0
    /\ IsInCheck(BoardAfter(Front(move_history)), Mover)
    /\ ~IsInCheck(board, Mover)

\* C3: generate_legal_moves returns exactly the moves is_valid_move accepts.
C3_GeneratedAreTheValid ==
    GenerateLegalMoves(board) = {m \in AllMoves : IsValidMove(board, m)}

\* The four reasons for which the claim has make_move refuse a call
C4Refused(player_id, m) ==
    \/ result # Ongoing
    \/ player_id \notin {white_player, black_player}
    \/ (player_id = white_player /\ board.to_move # "White")
    \/ (player_id # white_player /\ player_id = black_player /\ board.to_move # "Black")
    \/ ~IsValidMove(board, m)

\* C4: a make_move on a finished game, by a non-player, out of turn or with an
\* invalid move returns an error and leaves board, histories and result alone.
C4_RefusedChangesNothing ==
    [][\/ /\ last_call' = [op |-> "make_move", ok |-> FALSE]
           /\ UNCHANGED <<board, move_history, position_history, result>>
        \/ ~\E player_id \in Players, m \in Pool :
               C4Refused(player_id, m) /\ GameMakeMove(player_id, m)]_vars

\* C4 witness: a make_move was refused on a finished game.
C4_RefusedAfterEnd ==
    result # Ongoing /\ last_call = [op |-> "make_move", ok |-> FALSE]

\* The position key of the claims: placement, side to move, castling rights
\* and en-passant square
PositionKey(b) ==
    <<[pos \in AllPositions |-> <<GetPiece(b, pos).piece_type, GetPiece(b, pos).color>>],
      b.to_move, b.castling_rights, b.en_passant_target>>

\* How often the current position has occurred in the game, the initial
\* position included
Occurrences ==
    Cardinality({k \in 0..Len(move_history) :
        PositionKey(BoardAfter(SubSeq(move_history, 1, k))) = PositionKey(board)})

\* C5: after a successful make_move the result is set by the first of
\* checkmate, stalemate, fifty-move rule, threefold repetition and insufficient
\* material that applies, checkmate naming the mover; the scholar's mate ends
\* in Checkmate(White) with 7 moves and 8 positions recorded.
C5_TerminationOrder ==
    /\ last_call = [op |-> "make_move", ok |-> TRUE] =>
          result = IF IsCheckmate(board) THEN Checkmate(Mover)
                   ELSE IF IsStalemate(board) THEN Stalemate
                   ELSE IF board.halfmove_clock >= FiftyMoveLimit THEN Draw("FiftyMoveRule")
                   ELSE IF Occurrences >= 3 THEN Draw("ThreefoldRepetition")
                   ELSE IF IsInsufficientMaterial(board) THEN Draw("InsufficientMaterial")
                   ELSE Ongoing
    /\ move_history = ScholarsMate =>
          /\ result = Checkmate("White")
          /\ Len(position_history) = 8
          /\ Len(move_history) = 7

\* C5 witness: the scholar's mate has been played.
C5_ScholarsMatePlayed == move_history = ScholarsMate /\ result = Checkmate("White")

\* C6: with no checkmate, stalemate or fifty-move draw, the result is
\* Draw(ThreefoldRepetition) exactly when the new position has occurred three
\* times, the initial position counted; the knight shuffle is drawn by its 8th
\* move and by none before.
C6_Threefold ==
    /\ (/\ last_call = [op |-> "make_move", ok |-> TRUE]
        /\ ~IsCheckmate(board)
        /\ ~IsStalemate(board)
        /\ board.halfmove_clock < FiftyMoveLimit)
          => (result = Draw("ThreefoldRepetition") <=> Occurrences >= 3)
    /\ IsPrefix(move_history, KnightShuffle)
          => (result = Draw("ThreefoldRepetition") <=> Len(move_history) = 8)

\* C6 witness: the knight shuffle has been played to its 8th move.
C6_ShufflePlayed ==
    move_history = KnightShuffle /\ result = Draw("ThreefoldRepetition")

RECURSIVE QuietRun(_)
\* The number of plies at the end of h that moved no pawn and captured nothing
QuietRun(h) ==
    IF h = <<>> THEN 0
    ELSE LET before == BoardAfter(Front(h))
             m == Last(h)
         IN IF /\ GetPiece(before, m.from).piece_type # "Pawn"
               /\ IsEmpty(before, m.to)
               /\ ~m.is_en_passant
            THEN 1 + QuietRun(Front(h))
            ELSE 0

\* C7: the halfmove clock counts the plies played since the last pawn move or
\* capture, and once 100 of them have been played without checkmate or
\* stalemate the result is Draw(FiftyMoveRule).
C7_FiftyMoveDraw ==
    (Len(move_history) > 0 /\ result.kind \notin {"Checkmate", "Stalemate"})
       => /\ board.halfmove_clock = QuietRun(move_history)
          /\ QuietRun(move_history) >= FiftyMoveLimit => result = Draw("FiftyMoveRule")

\* An attack as the claims define it: a pawn attacks the two squares diagonally
\* ahead of it, White toward rank 8 and Black toward rank 1
AttacksAsClaimed(b, from, pos) ==
    LET piece == GetPiece(b, from)
    IN IF piece.piece_type = "Pawn"
       THEN Abs(pos.file - from.file) = 1 /\ pos.rank - from.rank = Direction(piece.color)
       ELSE from # pos /\ CanPieceAttack(b, MoveNew(from, pos), piece)

AttackedAsClaimed(b, pos, by_color) ==
    \E from \in AllPositions :
        GetPiece(b, from).color = by_color /\ AttacksAsClaimed(b, from, pos)

\* The castle moves of the king of the side to move: two files to either side
CastleMoves(b) ==
    LET king == FindKing(b, b.to_move)
    IN IF king = NoPos THEN {}
       ELSE {MoveCastle(king, PositionNew(king.file + s, king.rank)) :
                s \in {x \in {2, -2} : PositionNew(king.file + x, king.rank) # NoPos}}

\* C8: a castle is rejected when the king's origin, the square it passes or its
\* destination is attacked by an opposing piece.
C8_NoCastleThroughAttack ==
    \A m \in CastleMoves(board) :
        (\E pos \in {m.from, m.to,
                     PositionNew((m.from.file + m.to.file) \div 2, m.from.rank)} :
            AttackedAsClaimed(board, pos, Opposite(board.to_move)))
           => ~IsValidMove(board, m)

\* The last move was a pawn's advance of two squares along its file
LastWasDoubleAdvance ==
    /\ Len(move_history) > 0
    /\ LET m == Last(move_history)
       IN /\ GetPiece(BoardAfter(Front(move_history)), m.from).piece_type = "Pawn"
          /\ m.from.file = m.to.file
          /\ m.to.rank - m.from.rank = 2 * Direction(Mover)
          /\ ~m.is_castle /\ ~m.is_en_passant

\* The en-passant moves a pawn of the side to move can send
PawnEnPassantMoves(b) ==
    {MoveEnPassant(from, to) :
        <<from, to>> \in {x \in AllPositions \X AllPositions :
            /\ GetPiece(b, x[1]).piece_type = "Pawn"
            /\ GetPiece(b, x[1]).color = b.to_move}}

\* C9: the en-passant target is set only by a two-square pawn advance, and an
\* en-passant capture is accepted only on the ply right after the two-square
\* advance of the pawn it captures.
C9_EnPassantWindow ==
    /\ board.en_passant_target # NoPos => LastWasDoubleAdvance
    /\ \A m \in PawnEnPassantMoves(board) :
          IsValidMove(board, m)
             => /\ LastWasDoubleAdvance
                /\ Last(move_history).to = PositionNew(m.to.file, m.from.rank)

\* Every move with is_en_passant set, whatever the piece it moves
EnPassantMoves ==
    {m \in [from : AllPositions, to : AllPositions, promotion : {NoPromotion},
            is_castle : {FALSE}, is_en_passant : {TRUE}] : TRUE}

\* C10: a move with is_en_passant set is accepted only if a pawn steps one file
\* sideways and one rank forward onto the en-passant target, an opposing pawn
\* standing on the destination file at the origin rank.
C10_EnPassantShape ==
    \A m \in EnPassantMoves :
        IsValidMove(board, m)
           => /\ GetPiece(board, m.from).piece_type = "Pawn"
              /\ Abs(m.to.file - m.from.file) = 1
              /\ m.to.rank - m.from.rank = Direction(board.to_move)
              /\ m.to = board.en_passant_target
              /\ GetPiece(board, PositionNew(m.to.file, m.from.rank)).piece_type = "Pawn"
              /\ GetPiece(board, PositionNew(m.to.file, m.from.rank)).color
                    = Opposite(board.to_move)

\* The rank on which a pawn of color c promotes
LastRank(c) == IF c = "White" THEN 7 ELSE 0

\* The pushes and captures, with any promotion field, that take a pawn of the
\* side to move onto its last rank
PawnMovesToLastRank(b) ==
    {m \in [from : {pos \in AllPositions :
                       /\ GetPiece(b, pos).piece_type = "Pawn"
                       /\ GetPiece(b, pos).color = b.to_move
                       /\ pos.rank + Direction(b.to_move) = LastRank(b.to_move)},
            to : {pos \in AllPositions : pos.rank = LastRank(b.to_move)},
            promotion : PieceTypes \cup {NoPromotion},
            is_castle : {FALSE}, is_en_passant : {FALSE}] : TRUE}

\* C11: a pawn move onto the last rank is accepted only with a promotion kind,
\* and the kind is one of Queen, Rook, Bishop and Knight.
C11_PromotionRequired ==
    \A m \in PawnMovesToLastRank(board) :
        IsValidMove(board, m) => m.promotion \in PromotionKinds

\* The two-square advances a pawn of the side to move can send
DoubleAdvances(b) ==
    {MoveNew(from, PositionNew(from.file, from.rank + 2 * Direction(b.to_move))) :
        from \in {pos \in AllPositions :
                     /\ GetPiece(b, pos).piece_type = "Pawn"
                     /\ GetPiece(b, pos).color = b.to_move
                     /\ PositionNew(pos.file, pos.rank + 2 * Direction(b.to_move)) # NoPos}}

\* The rank on which the pawns of color c start
PawnStartRank(c) == IF c = "White" THEN 1 ELSE 6

\* C12: a two-square pawn advance is accepted only if the pawn has not moved
\* and the square it jumps over and its destination are both empty.
C12_DoubleAdvanceClear ==
    \A m \in DoubleAdvances(board) :
        IsValidMove(board, m)
           => /\ m.from.rank = PawnStartRank(board.to_move)
              /\ ~GetPiece(board, m.from).has_moved
              /\ IsEmpty(board, PositionNew(m.from.file,
                                            m.from.rank + Direction(board.to_move)))
              /\ IsEmpty(board, m.to)

\* The number of pieces on the board
PieceCount(b) == Cardinality({pos \in AllPositions : GetPiece(b, pos) # NoPiece})

\* C13: after a move the halfmove clock is 0 if a pawn moved or a piece was
\* captured, and otherwise one more than it was before the move.
C13_HalfmoveClock ==
    Len(move_history) > 0 =>
        LET before == BoardAfter(Front(move_history))
            m == Last(move_history)
        IN board.halfmove_clock =
              IF \/ GetPiece(before, m.from).piece_type = "Pawn"
                 \/ PieceCount(board) < PieceCount(before)
              THEN 0
              ELSE before.halfmove_clock + 1

\* C14: the fullmove number starts at 1, stays as it is after a move of White
\* and grows by 1 after each move of Black.
C14_FullmoveNumber ==
    board.fullmove_number = 1 + (Len(move_history) \div 2)

\* C15: offering a draw does not by itself end the game: after an accepted
\* offer the result is still Ongoing, the offer pending until the opponent
\* accepts it or the next move is made.
C15_OfferIsPending ==
    last_call = [op |-> "offer_draw", ok |-> TRUE] => result = Ongoing

\* The successful Connect responses among the first n messages sent to c
ConnectResponses(c, n) ==
    {i \in 1..n : outbound[c][i].type = "ConnectResponse"}

\* The last successful Connect response among the first n messages sent to c
LastConnect(c, n) ==
    outbound[c][CHOOSE i \in ConnectResponses(c, n) :
                    \A k \in ConnectResponses(c, n) : k <= i]

\* The last message sent to c answers a request of type re
Answered(c, re) == outbound[c] # <<>> /\ Last(outbound[c]).re = re

\* C16: once a Connect with a player name has succeeded on a connection, a
\* later CreateGame on it is served with the connection's session: if that
\* session may create games, the answer is a CreateGameResponse naming a game
\* in which the caller is seated with the color returned.
C16_CreateGameAfterConnect ==
    \A c \in Conns :
        (/\ Answered(c, "CreateGame")
         /\ ConnectResponses(c, Len(outbound[c])) # {}
         /\ LastConnect(c, Len(outbound[c])).player_id \in Names
         /\ CanCreateGame(sessions[LastConnect(c, Len(outbound[c])).session_id]))
           => LET reply == Last(outbound[c])
                  player_id == LastConnect(c, Len(outbound[c])).player_id
              IN /\ reply.type = "CreateGameResponse"
                 /\ reply.game_id \in games
                 /\ reply.color = GetPlayerColor(white_player, black_player, player_id)
                 /\ reply.color # NoColor

\* C17: an Authenticate is answered with an error unless a Connect succeeded
\* before it on the same connection, and when it is served the session of the
\* connection is authenticated for the named player.
C17_AuthenticateAfterConnect ==
    \A c \in Conns :
        Answered(c, "Authenticate")
           => LET reply == Last(outbound[c])
                  connected == ConnectResponses(c, Len(outbound[c])) # {}
              IN /\ ~connected => reply.type = "Error"
                 /\ reply.type = "AuthenticateResponse"
                       => /\ connected
                          /\ LET session ==
                                   sessions[LastConnect(c, Len(outbound[c])).session_id]
                             IN /\ session.is_authenticated
                                /\ session.player_id = reply.player_id

\* The MakeMove requests of c are dispatched with no session or with a
\* session that is not authenticated
Unauthenticated(c) ==
    DispatchedSession(c) = NoSession \/ ~DispatchedSession(c).is_authenticated

\* C18: a MakeMove dispatched with no session or with a session that is not
\* authenticated is answered with an error and changes neither the board, the
\* histories, the result nor the count of moves played.
C18_MakeMoveNeedsAuthentication ==
    [][\A c \in Conns :
          (/\ Unauthenticated(c)
           /\ \E game_id \in GameIds, m \in NetMoves : HandleMakeMove(c, game_id, m))
             => /\ Last(outbound'[c]).type = "Error"
                /\ UNCHANGED <<board, move_history, position_history, result>>
                /\ statistics'.total_moves_player = statistics.total_moves_player]_vars

\* The GameUpdate notifications among the messages sent to c
GameUpdates(c) == {i \in 1..Len(outbound[c]) : outbound[c][i].type = "GameUpdate"}

\* C19: on every client's outbound queue the GameUpdate of a move applied
\* earlier is enqueued before the GameUpdate of a move applied later.
C19_UpdatesInMoveOrder ==
    \A c \in Conns :
        \A i, j \in GameUpdates(c) :
            i < j => outbound[c][i].move_no < outbound[c][j].move_no

\* C20: every entry of the player index and of the session index of the
\* ClientManager names a connection that is in the connection map.
C20_IndexesNameClients ==
    /\ \A p \in PlayerIds : player_clients[p] # NoClient => player_clients[p] \in clients
    /\ \A i \in 1..MaxSessions :
          session_clients[i] # NoClient => session_clients[i] \in clients

\* The ids of the sessions the manager holds
HeldIds == {id \in 1..Len(sessions) : sessions[id] # NoSession}

\* The ids of the sessions held with the address ip
HeldAt(ip) == {id \in HeldIds : sessions[id].ip_address = ip}

\* C21: whatever calls were made on the session manager, it holds for every
\* address at most 10 sessions, of which at most 5 are authenticated.
C21_CapsPerIp ==
    \A ip \in Ips :
        /\ Cardinality(HeldAt(ip)) <= 10
        /\ Cardinality({id \in HeldAt(ip) : sessions[id].is_authenticated}) <= 5

\* The ids of the sessions held that are not expired
ActiveIds == {id \in HeldIds : ~IsExpired(sessions[id], now)}

\* C22: whatever calls were made on the session manager, no two sessions it
\* holds that are not expired have the same player id.
C22_OneActiveSessionPerPlayer ==
    \A i \in ActiveIds, j \in ActiveIds :
        i # j => sessions[i].player_id # sessions[j].player_id

\* C23: whatever calls were made on the session manager, every entry p -> s of
\* the player index names a held session s whose player id is p, and every
\* session id listed under an address is that of a held session with that
\* address.
C23_IndexesNameSessions ==
    /\ \A p \in PlayerIds :
          player_sessions[p] # NoSessionId =>
              /\ player_sessions[p] \in HeldIds
              /\ sessions[player_sessions[p]].player_id = p
    /\ \A ip \in Ips : \A i \in 1..Len(ip_sessions[ip]) :
          /\ ip_sessions[ip][i] \in HeldIds
          /\ sessions[ip_sessions[ip][i]].ip_address = ip

\* C24: cleanup_expired_sessions on a manager holding E expired sessions
\* (now - last_activity > timeout) and A others removes exactly the E expired
\* ones, leaves the A others as they were, and returns E.
C24_CleanupRemovesExpired ==
    [][CleanupExpiredSessionsOp =>
          LET expired == {id \in HeldIds : now - sessions[id].last_activity > TimeoutSecs}
          IN /\ last_call'.ret = Cardinality(expired)
             /\ {id \in 1..Len(sessions') : sessions'[id] # NoSession} = HeldIds \ expired
             /\ \A id \in HeldIds \ expired : sessions'[id] = sessions[id]]_vars

\* C24 witness: a cleanup has removed two expired sessions and left another.
C24_TwoRemovedOneLeft ==
    /\ last_call.op = "cleanup_expired_sessions"
    /\ last_call.ret = 2
    /\ HeldIds # {}

\* The number of can_perform_action calls made so far
ActionCalls == Cardinality({i \in 1..Len(calls) : calls[i].op = "can_perform_action"})

\* C26: can_perform_action(cost) on a session with a token bucket sets tokens
\* to min(capacity, tokens + (now - last_refill) * refill_rate), then returns
\* true and takes cost away iff tokens >= cost, else returns false and leaves
\* tokens alone; tokens stays within 0..capacity; and while no time passes
\* exactly capacity calls of cost 1 succeed before the first one fails.
C26_TokenBucket ==
    /\ [][\A session_id \in 1..MaxIds, cost \in Costs :
            (CanPerformActionOp(session_id, cost) /\ HasSession(Manager, session_id)) =>
                LET limiter == sessions[session_id].rate_limiter
                    refilled == Min2(limiter.capacity,
                                     limiter.tokens
                                       + (now - limiter.last_refill) * limiter.refill_rate)
                IN /\ last_call'.ok = (refilled >= cost)
                   /\ sessions'[session_id].rate_limiter.tokens =
                         IF refilled >= cost THEN refilled - cost ELSE refilled]_vars
    /\ [](\A id \in HeldIds :
            /\ sessions[id].rate_limiter.tokens >= 0
            /\ sessions[id].rate_limiter.tokens <= sessions[id].rate_limiter.capacity)
    /\ []((/\ now = 0
           /\ last_call.op = "can_perform_action"
           /\ calls[Len(calls)].cost = Tok(1)) =>
              last_call.ok = (ActionCalls <= sessions[1].rate_limiter.capacity \div Tok(1)))

\* C26 witness: with no time passed, the 31st call of cost 1 on a guest session
\* (capacity 30) is the first to be refused.
C26_ThirtyFirstRefused ==
    /\ now = 0
    /\ last_call = [op |-> "can_perform_action", ok |-> FALSE, ret |-> 1]
    /\ ActionCalls = 31
    /\ sessions[1].rate_limiter.capacity = Tok(30)

\* The number of Pong messages put on the outbound channel of c
Pongs(c) == Cardinality({i \in 1..Len(outbound[c]) : outbound[c][i].type = "Pong"})

\* C25: requests are charged against the token bucket of the connection's
\* session: with no time passing, a connection whose session is a guest
\* session (capacity 30) gets Pong for at most 30 Ping requests, the 31st
\* being refused.
C25_GuestPingsLimited ==
    \A c \in Conns :
        (/\ now = 0
         /\ \E id \in HeldIds :
               /\ session_clients[id] = c
               /\ sessions[id].rate_limiter.capacity = Tok(30)) =>
            Pongs(c) <= 30

\* The capacity the claim's bounded queue is tried with
QueueLimit == 2

\* C27: the outbound queue of a client is bounded (here by QueueLimit: a queue
\* never holds more), and a client whose enqueue returned ConnectionLost is in
\* state Disconnecting.
C27_QueueBounded ==
    \A c \in Conns :
        /\ Len(outbound[c]) <= QueueLimit
        /\ (last_call.op = "broadcast_message" /\ c \in last_call.lost) =>
              client_info[c].state = "Disconnecting"

\* C28: broadcast_message(m) puts m on the channel of every registered client
\* whose channel is open and on no other, leaves a client whose send returns
\* ConnectionLost as it was, and returns the number of sends that succeeded.
C28_BroadcastReachesAll ==
    [][BroadcastMessage =>
          /\ \A c \in clients :
                outbound'[c] = IF writer[c] = "Running"
                               THEN Append(outbound[c], Msg("Disconnect", "None"))
                               ELSE outbound[c]
          /\ \A c \in Conns \ clients : outbound'[c] = outbound[c]
          /\ last_call'.ret = Cardinality({c \in clients : writer[c] = "Running"})
          /\ last_call'.lost = {c \in clients : writer[c] # "Running"}]_vars

\* C28 witness: a broadcast to two registered clients failed for one of them
\* and reached the other.
C28_OneLostOneReached ==
    /\ last_call.op = "broadcast_message"
    /\ last_call.ret = 1
    /\ Cardinality(last_call.lost) = 1
    /\ clients = Conns

\* The line fails to decode: it is too long, or not the JSON of a message, or
\* of another version than 1.0
Undecodable(line) ==
    line.size > 1048576 \/ ~line.is_json \/ line.version # "1.0"

\* C29 as stated: a line that fails to decode puts an Error envelope with no
\* request id on the channel of its connection, the handler is not invoked,
\* and the reading task goes on.
C29_DecodeErrorAnswered ==
    [][\A c \in Conns, line \in AllLines :
          (ReadLine(c, line) /\ line.size > 0 /\ Undecodable(line)) =>
              /\ outbound'[c] = Append(outbound[c], ErrorMsg("None"))
              /\ statistics' = statistics
              /\ client_info'[c].state = client_info[c].state]_vars

\* C29 as amended: while the writing task of the connection is running, a line
\* that fails to decode puts an Error envelope with no request id on the
\* channel, the handler is not invoked and the reading task goes on; once the
\* writing task has exited, nothing is put on the channel, the handler is not
\* invoked and the reading task ends.
C29_DecodeErrorAnsweredWhileWriting ==
    [][\A c \in Conns, line \in AllLines :
          (ReadLine(c, line) /\ line.size > 0 /\ Undecodable(line)) =>
              /\ statistics' = statistics
              /\ IF writer[c] = "Running"
                 THEN /\ outbound'[c] = Append(outbound[c], ErrorMsg("None"))
                      /\ client_info'[c].state = client_info[c].state
                 ELSE /\ outbound'[c] = outbound[c]
                      /\ client_info'[c].state = "Disconnected"]_vars

\* C29 witness: a line of another version was answered with an Error envelope
\* and the connection has gone on to read the next line.
C29_ErrorThenNextLine ==
    /\ received["c2"] = <<OtherVersionLine, PingLine>>
    /\ Len(outbound["c2"]) = 2
    /\ outbound["c2"][1] = ErrorMsg("None")
    /\ outbound["c2"][2].type = "Pong"

\* C30: once the writing task of a client has exited on a write error, the
\* next turn of its reading task ends it (the client becomes Disconnected),
\* whatever line the peer sent.
C30_ReaderFollowsWriter ==
    [][\A c \in Conns, line \in AllLines :
          (ReadLine(c, line) /\ writer[c] = "Exited") =>
              client_info'[c].state = "Disconnected"]_vars

\* The board before the last move of the game
BoardBefore == BoardAfter(Front(move_history))

\* C35: every castle move accepted by make_move is made by a king on the e-file of its home
\* rank and goes to the g-file or the c-file of that rank, so that after the
\* move the king stands beside the rook re-homed to the f-file or the d-file.
C35_CastleGeometry ==
    (last_call = [op |-> "make_move", ok |-> TRUE] /\ Last(move_history).is_castle) =>
        LET m == Last(move_history)
            piece == GetPiece(BoardBefore, m.from)
            home == IF piece.color = "White" THEN 0 ELSE 7
        IN /\ piece.piece_type = "King"
           /\ m.from = P(4, home)
           /\ m.to \in {P(6, home), P(2, home)}
           /\ GetPiece(board, m.to).piece_type = "King"
           /\ GetPiece(board, P(IF m.to.file = 6 THEN 5 ELSE 3, home)).piece_type = "Rook"

\* The number of pieces of one color on a board
ColorCount(b, c) == Cardinality({pos \in AllPositions : GetPiece(b, pos).color = c})

\* C36: every move accepted and applied by make_move, whatever its promotion,
\* is_castle and is_en_passant fields, leaves the number of pieces of the
\* mover's color unchanged and takes at most one piece of the other color.
C36_PieceCounts ==
    last_call = [op |-> "make_move", ok |-> TRUE] =>
        /\ ColorCount(board, Mover) = ColorCount(BoardBefore, Mover)
        /\ ColorCount(board, Opposite(Mover)) \in
               {ColorCount(BoardBefore, Opposite(Mover)),
                ColorCount(BoardBefore, Opposite(Mover)) - 1}

\* C37: a finished game is absorbing: once the result is not Ongoing, every
\* later make_move, resign, offer_draw and timeout call returns an error and
\* changes neither the result, the board nor the move and position histories.
C37_FinishedIsAbsorbing ==
    [][result # Ongoing =>
          /\ ~last_call'.ok
          /\ UNCHANGED <<result, board, move_history, position_history>>]_vars

\* After the checkmate of the scholar's mate a resign was refused
C37_RefusedWhenFinished ==
    /\ result = Checkmate("White")
    /\ last_call = [op |-> "resign", ok |-> FALSE]

(***************************************************************************)
(* SeatSpec: add_player and remove_player on one new game                  *)
(***************************************************************************)
\* How many add_player and remove_player calls a game receives
MaxSeatCalls == 3

\* GameState::remove_player on the seats w and b
RemovePlayer(w, b, player_id) ==
    [white |-> IF w # NoPlayer /\ w = player_id THEN NoPlayer ELSE w,
     black |-> IF b # NoPlayer /\ b = player_id THEN NoPlayer ELSE b]

SeatInit == NetInit

\* Everything but the seats, the last call and the calls made
seat_frame ==
    <<board, result, move_history, position_history, clients, client_info,
      client_session, player_clients, session_clients, registered, current_games,
      sessions, player_sessions, games, player_games, statistics, outbound, tasks,
      received, ip_sessions, now, writer, reader, server, player_stats>>

\* add_player(player_id, color) is called on the game
AddPlayerOp(player_id, color) ==
    /\ Len(calls) < MaxSeatCalls
    /\ LET seated == AddPlayer(white_player, black_player, player_id, color)
       IN /\ white_player' = seated.white
          /\ black_player' = seated.black
          /\ last_call' = [op |-> "add_player", ok |-> seated.ok]
    /\ calls' = Append(calls, [op |-> "add_player", player_id |-> player_id,
                               color |-> color])
    /\ UNCHANGED seat_frame

\* remove_player(player_id) is called on the game
RemovePlayerOp(player_id) ==
    /\ Len(calls) < MaxSeatCalls
    /\ LET left == RemovePlayer(white_player, black_player, player_id)
       IN /\ white_player' = left.white
          /\ black_player' = left.black
          /\ last_call' = [op |-> "remove_player", ok |-> TRUE]
    /\ calls' = Append(calls, [op |-> "remove_player", player_id |-> player_id,
                               color |-> NoColor])
    /\ UNCHANGED seat_frame

SeatNext ==
    \/ \E player_id \in Names, color \in {NoColor, "White", "Black"} :
           AddPlayerOp(player_id, color)
    \/ \E player_id \in Names : RemovePlayerOp(player_id)

SeatSpec == SeatInit /\ [][SeatNext]_vars

\* C38: after any sequence of add_player and remove_player calls, the white
\* player and the black player of a game, when both are set, are different
\* player ids.
C38_SeatsDiffer ==
    (white_player # NoPlayer /\ black_player # NoPlayer) => white_player # black_player

\* C39: a JoinGame request answered with an Error leaves the white and black
\* player slots of the game and the game lists of the players unchanged.
C39_JoinErrorChangesNothing ==
    [][\A c \in Conns :
          (/\ received'[c] # received[c]
           /\ Last(received'[c]).type = "JoinGame"
           /\ outbound'[c] = Append(outbound[c], ErrorMsg("JoinGame")))
          => UNCHANGED <<white_player, black_player, player_games, current_games>>]_vars

\* C40: client state Disconnected is absorbing and leads to removal: once the
\* reader of a client has exited and set the state to Disconnected, no later
\* operation moves it to another state, and a cleanup of the disconnected
\* clients removes exactly the clients in state Disconnected.
C40_DisconnectedIsAbsorbing ==
    [][/\ \A c \in Conns :
             client_info[c].state = "Disconnected" =>
                 client_info'[c].state = "Disconnected"
       /\ clients' # clients /\ clients' \subseteq clients =>
             clients \ clients' =
                 {c \in clients : client_info[c].state = "Disconnected"}]_vars

(***************************************************************************)
(* ServerSpec: ChessServer::start, its accept loop, the two cleanup loops  *)
(* and ChessServer::stop                                                   *)
(***************************************************************************)
\* config.server.max_connections
MaxConnections == 1

ServerInit == NetInit

\* ChessServer::start up to the accept loop: is_running is set and
\* start_cleanup_tasks spawns the two loops
Start ==
    /\ server.accept = "Idle"
    /\ server' = [server EXCEPT !.is_running = TRUE, !.accept = "Head",
                                !.cleanup = "Waiting", !.uptime = "Waiting"]
    /\ UNCHANGED <<clients, client_info, client_session, player_clients, session_clients,
                   registered, current_games, sessions, player_sessions, games,
                   player_games, statistics, outbound, tasks, received>>
    /\ UNCHANGED <<ip_sessions, now, calls, writer, reader, player_stats>>
    /\ UNCHANGED game_vars

\* The head of the accept loop: it breaks when is_running is false, and waits
\* in listener.accept() otherwise; began_running records the flag the
\* iteration saw
AcceptLoopHead ==
    /\ server.accept = "Head"
    /\ server' = [server EXCEPT
                     !.accept = IF server.is_running THEN "Accepting" ELSE "Returned",
                     !.began_running = server.is_running]
    /\ UNCHANGED <<clients, client_info, client_session, player_clients, session_clients,
                   registered, current_games, sessions, player_sessions, games,
                   player_games, statistics, outbound, tasks, received>>
    /\ UNCHANGED <<ip_sessions, now, calls, writer, reader, player_stats>>
    /\ UNCHANGED game_vars

\* An accept loop that registers a connection when the count equals the limit
AcceptConnectionAtLimit(c) ==
    /\ server.accept = "Accepting"
    /\ client_info[c].state = "None"
    /\ c \notin server.refused
    /\ IF Cardinality(clients) > MaxConnections
       THEN /\ server' = [server EXCEPT !.accept = "Head", !.refused = @ \cup {c}]
            /\ UNCHANGED net_vars_but_server
            /\ UNCHANGED game_vars
       ELSE /\ server' = [server EXCEPT
                             !.accept = "Head",
                             !.total_connections = @ + 1,
                             !.peak_concurrent_connections =
                                 IF Cardinality(clients) > @ THEN Cardinality(clients)
                                 ELSE @]
            /\ HandleNewClient(c)

\* listener.accept() returns the connection c: it is shut down when the
\* client count has reached max_connections, and handed to handle_new_client
\* after the statistics otherwise
AcceptConnection(c) ==
    /\ server.accept = "Accepting"
    /\ client_info[c].state = "None"
    /\ c \notin server.refused
    /\ IF Cardinality(clients) >= MaxConnections
       THEN /\ server' = [server EXCEPT !.accept = "Head", !.refused = @ \cup {c}]
            /\ UNCHANGED net_vars_but_server
            /\ UNCHANGED game_vars
       ELSE /\ server' = [server EXCEPT
                             !.accept = "Head",
                             !.total_connections = @ + 1,
                             !.peak_concurrent_connections =
                                 IF Cardinality(clients) > @ THEN Cardinality(clients)
                                 ELSE @]
            /\ HandleNewClient(c)

\* listener.accept() returns an error: the loop sleeps and goes on
AcceptError ==
    /\ server.accept = "Accepting"
    /\ server' = [server EXCEPT !.accept = "Head"]
    /\ UNCHANGED net_vars_but_server
    /\ UNCHANGED game_vars

\* The registry after ClientManager::cleanup_disconnected_clients
Cleaned ==
    RemoveClients([clients |-> clients, player_clients |-> player_clients,
                   session_clients |-> session_clients],
                  {c \in clients : ~IsConnected(c)})

\* A tick of the first cleanup loop: it breaks when is_running is false, and
\* removes the disconnected clients and the expired sessions otherwise
CleanupTick ==
    /\ server.cleanup = "Waiting"
    /\ IF ~server.is_running
       THEN /\ server' = [server EXCEPT !.cleanup = "Exited"]
            /\ UNCHANGED <<clients, player_clients, session_clients, sessions,
                           player_sessions, ip_sessions>>
       ELSE /\ clients' = Cleaned.clients
            /\ player_clients' = Cleaned.player_clients
            /\ session_clients' = Cleaned.session_clients
            /\ Becomes(CleanupExpiredSessions(Manager, now).sm)
            /\ UNCHANGED server
    /\ UNCHANGED <<client_info, client_session, registered, current_games, games,
                   player_games, statistics, outbound, tasks, received>>
    /\ UNCHANGED <<now, calls, writer, reader, player_stats>>
    /\ UNCHANGED game_vars

\* A tick of the second cleanup loop: it breaks when is_running is false, and
\* refreshes uptime_seconds, which the model does not keep, otherwise
UptimeTick ==
    /\ server.uptime = "Waiting"
    /\ server' = [server EXCEPT
                     !.uptime = IF server.is_running THEN "Waiting" ELSE "Exited"]
    /\ UNCHANGED net_vars_but_server
    /\ UNCHANGED game_vars

\* ChessServer::stop up to its sleep: is_running is cleared and the
\* Disconnect notification is broadcast
Stop ==
    /\ server.accept # "Idle"
    /\ server.stop = "None"
    /\ server' = [server EXCEPT !.is_running = FALSE, !.stop = "Sleeping"]
    /\ outbound' = BroadcastLoop(outbound, clients, Msg("Disconnect", "None")).outbound
    /\ UNCHANGED <<clients, client_info, client_session, player_clients, session_clients,
                   registered, current_games, sessions, player_sessions, games,
                   player_games, statistics, tasks, received>>
    /\ UNCHANGED <<ip_sessions, now, calls, writer, reader, player_stats>>
    /\ UNCHANGED game_vars

\* ChessServer::stop after its sleep: the disconnected clients are removed
StopCleanup ==
    /\ server.stop = "Sleeping"
    /\ server' = [server EXCEPT !.stop = "Done"]
    /\ clients' = Cleaned.clients
    /\ player_clients' = Cleaned.player_clients
    /\ session_clients' = Cleaned.session_clients
    /\ UNCHANGED <<client_info, client_session, registered, current_games, sessions,
                   player_sessions, games, player_games, statistics, outbound, tasks,
                   received>>
    /\ UNCHANGED <<ip_sessions, now, calls, writer, reader, player_stats>>
    /\ UNCHANGED game_vars

ServerNext ==
    \/ Start
    \/ AcceptLoopHead
    \/ \E c \in Conns : AcceptConnection(c)
    \/ AcceptError
    \/ \E c \in Conns : Close(c)
    \/ CleanupTick
    \/ UptimeTick
    \/ Stop
    \/ StopCleanup

\* The tasks of the server are scheduled and the timers of the cleanup loops
\* fire; when a peer connects or closes is up to the peers
ServerSpec ==
    /\ ServerInit
    /\ [][ServerNext]_vars
    /\ WF_vars(AcceptLoopHead)
    /\ WF_vars(CleanupTick)
    /\ WF_vars(UptimeTick)
    /\ WF_vars(StopCleanup)

\* C31: the number of clients registered in the ClientManager never exceeds
\* max_connections, and a connection the accept loop shut down because the
\* count had reached max_connections is not registered.
C31_CountWithinMaxConnections ==
    /\ Cardinality(clients) <= MaxConnections
    /\ server.refused \cap clients = {}

\* A connection was shut down by the accept loop while the registry was full
C31_RefusedWhenFull ==
    /\ server.refused # {}
    /\ Cardinality(clients) = MaxConnections

\* C32: after stop() has set is_running to false, the accept loop terminates
\* and both cleanup loops terminate, and no client is registered by an
\* iteration of the accept loop that begins after the flag was cleared.
C32_StopTerminatesLoops ==
    /\ (server.stop # "None") ~>
           (/\ server.accept = "Returned"
            /\ server.cleanup = "Exited"
            /\ server.uptime = "Exited")
    /\ [][(clients' # clients /\ clients \subseteq clients') => server.began_running]_vars

(***************************************************************************)
(* PlayerSpec: player/player.rs EloCalculator, player/mod.rs PlayerManager *)
(* ratings and matchmaking                                                 *)
(***************************************************************************)
\* The ratings the players are given with update_player_rating. A rated game
\* is played between ratings of this set or the default rating: their
\* differences are multiples of 200, for which the power of ten is tabulated.
Ratings == {100, 1300, 1500, 1700}

\* The rating tolerances asked of find_matchmaking_opponent
Tolerances == {0, 200}

\* EloCalculator::K_FACTOR
K_FACTOR == 32

\* The lowest rating update_ratings_after_game leaves a player
RatingFloor == 100

RECURSIVE Ten(_)
\* 10^k for a natural k
Ten(k) == IF k = 0 THEN 1 ELSE 10 * Ten(k - 1)

\* 10.0_f64.powf(j / 2) for a natural j, as a fraction; the square root of
\* ten is taken as 3.162
PowerOfTen(j) ==
    IF j % 2 = 0 THEN [num |-> Ten(j \div 2), den |-> 1]
    ELSE [num |-> Ten((j - 1) \div 2) * 3162, den |-> 1000]

\* EloCalculator::expected_score(rating_a, rating_b), as a fraction:
\* 1 / (1 + 10^((rating_a - rating_b) / 400))
ExpectedScore(rating_a, rating_b) ==
    LET j == Abs(rating_a - rating_b) \div 200
        pw == PowerOfTen(j)
    IN IF rating_a >= rating_b
       THEN [num |-> pw.den, den |-> pw.den + pw.num]
       ELSE [num |-> pw.num, den |-> pw.num + pw.den]

\* f64::round of the fraction p / q, q > 0: halves go away from zero
Round(p, q) ==
    IF p >= 0 THEN (2 * p + q) \div (2 * q) ELSE -((2 * (-p) + q) \div (2 * q))

\* The scores of the player and of the opponent, in halves of a point
Scores(game_result) ==
    IF game_result = "PlayerWin" THEN <<2, 2>>
    ELSE IF game_result = "OpponentWin" THEN <<0, 2>>
    ELSE <<1, 1>>

\* K_FACTOR * (score - expected), rounded; score in halves of a point
RatingChange(score, expected) ==
    Round(K_FACTOR * (score * expected.den - 2 * expected.num), 2 * expected.den)

\* EloCalculator::calculate_rating_change(player_rating, opponent_rating, result)
CalculateRatingChange(player_rating, opponent_rating, game_result) ==
    LET player_expected == ExpectedScore(player_rating, opponent_rating)
        opponent_expected == ExpectedScore(opponent_rating, player_rating)
    IN <<RatingChange(Scores(game_result)[1], player_expected),
         RatingChange(Scores(game_result)[2], opponent_expected)>>

\* PlayerManager::update_player_rating(player_id, new_rating) on the players ps
UpdatePlayerRating(ps, player_id, new_rating) ==
    IF ps[player_id] = NoStats THEN [ok |-> FALSE, players |-> ps]
    ELSE [ok |-> TRUE, players |-> [ps EXCEPT ![player_id].rating = new_rating]]

\* PlayerManager::update_ratings_after_game(player1_id, player2_id, result)
UpdateRatingsAfterGame(ps, player1_id, player2_id, game_result) ==
    IF ps[player1_id] = NoStats \/ ps[player2_id] = NoStats
    THEN [ok |-> FALSE, players |-> ps]
    ELSE LET change == CalculateRatingChange(ps[player1_id].rating,
                                             ps[player2_id].rating, game_result)
             new_rating1 == Max2(ps[player1_id].rating + change[1], RatingFloor)
             new_rating2 == Max2(ps[player2_id].rating + change[2], RatingFloor)
         IN UpdatePlayerRating(UpdatePlayerRating(ps, player1_id, new_rating1).players,
                               player2_id, new_rating2)

\* Player::is_available_for_game; no player of this specification is in a game
IsAvailableForGame(stats) == stats.status \in {"Online", "Away"}

\* The players find_matchmaking_opponent chooses from: search_players with
\* the rating range and available_for_game, then the filter on the id
Candidates(ps, player_id, rating_tolerance) ==
    {q \in Members :
        /\ ps[q] # NoStats
        /\ ps[q].rating >= Max2(ps[player_id].rating - rating_tolerance, 0)
        /\ ps[q].rating <= ps[player_id].rating + rating_tolerance
        /\ IsAvailableForGame(ps[q])
        /\ q # player_id}

\* The key of min_by_key
Distance(ps, player_id, q) == Abs(ps[q].rating - ps[player_id].rating)

\* PlayerManager::find_matchmaking_opponent(player_id, rating_tolerance): the
\* players it may return. min_by_key returns the first minimum in the order
\* of HashMap::values, which is not specified: any player at the minimum.
FindMatchmakingOpponent(ps, player_id, rating_tolerance) ==
    IF ps[player_id] = NoStats THEN {NoPlayer}
    ELSE LET found == Candidates(ps, player_id, rating_tolerance)
         IN IF found = {} THEN {NoPlayer}
            ELSE {q \in found :
                    \A r \in found : Distance(ps, player_id, q) <= Distance(ps, player_id, r)}

\* A call on the PlayerManager
PlayerCall(op, player_id, rating, status) ==
    [op |-> op, player_id |-> player_id, rating |-> rating, status |-> status]

RegisterCall(name) == PlayerCall("register_player", name, 0, "None")

RateCall(player_id, rating) == PlayerCall("update_player_rating", player_id, rating, "None")

StatusCall(player_id, status) == PlayerCall("set_status", player_id, 0, status)

\* The calls that fill the registry, run by run: two players rated 1500; three
\* players with two at the same distance from the first, one of whom goes
\* offline; two players at the rating floor; three players at the default
\* rating, one registered twice
PlayerRuns ==
    {<<RegisterCall("p1"), RegisterCall("p2"), RateCall("p1", 1500), RateCall("p2", 1500),
       RateCall("p2", 1700), RateCall("p1", 1300)>>,
     <<RegisterCall("p1"), RegisterCall("p2"), RegisterCall("p3"), RateCall("p1", 1500),
       RateCall("p2", 1300), RateCall("p3", 1700), StatusCall("p2", "Offline"),
       StatusCall("p3", "InGame")>>,
     <<RegisterCall("p1"), RegisterCall("p2"), RateCall("p1", 100), RateCall("p2", 100),
       RateCall("p2", 1500)>>,
     <<RegisterCall("p2"), RegisterCall("p3"), RegisterCall("p3"), RegisterCall("p1"),
       StatusCall("p1", "Away"), RateCall("p4", 1500)>>}

\* The call is the next one of a run
PlayerCalls(call) == \E run \in PlayerRuns : IsPrefix(Append(calls, call), run)

PlayerInit == NetInit

\* Everything but the registry of players, the last call and the calls made
player_frame ==
    <<board, result, move_history, position_history, white_player, black_player,
      clients, client_info, client_session, player_clients, session_clients,
      current_games, sessions, player_sessions, games, player_games, statistics,
      outbound, tasks, received, ip_sessions, now, writer, reader, server>>

\* register_player(name)
RegisterPlayerOp(name) ==
    /\ PlayerCalls(RegisterCall(name))
    /\ calls' = Append(calls, RegisterCall(name))
    /\ player_stats' = Registered(player_stats, name)
    /\ registered' = registered \cup {name}
    /\ last_call' = [op |-> "register_player", ok |-> player_stats[name] = NoStats]
    /\ UNCHANGED player_frame

\* update_player_rating(player_id, new_rating)
UpdatePlayerRatingOp(player_id, new_rating) ==
    /\ PlayerCalls(RateCall(player_id, new_rating))
    /\ calls' = Append(calls, RateCall(player_id, new_rating))
    /\ IF player_id \in Members
       THEN LET done == UpdatePlayerRating(player_stats, player_id, new_rating)
            IN /\ player_stats' = done.players
               /\ last_call' = [op |-> "update_player_rating", ok |-> done.ok]
       ELSE /\ UNCHANGED player_stats
            /\ last_call' = [op |-> "update_player_rating", ok |-> FALSE]
    /\ UNCHANGED registered
    /\ UNCHANGED player_frame

\* get_player_mut(player_id), then Player::set_status(status)
SetStatusOp(player_id, status) ==
    /\ PlayerCalls(StatusCall(player_id, status))
    /\ calls' = Append(calls, StatusCall(player_id, status))
    /\ player_stats' = IF player_stats[player_id] = NoStats THEN player_stats
                       ELSE [player_stats EXCEPT ![player_id].status = status]
    /\ last_call' = [op |-> "set_status", ok |-> player_stats[player_id] # NoStats]
    /\ UNCHANGED registered
    /\ UNCHANGED player_frame

\* update_ratings_after_game(player1_id, player2_id, result), after a game
\* between two players whose ratings are of the set or the default
UpdateRatingsAfterGameOp(player1_id, player2_id, game_result) ==
    /\ player1_id # player2_id
    /\ \A p \in {player1_id, player2_id} :
           player_stats[p] = NoStats \/ player_stats[p].rating \in Ratings \cup {PlayerNew.rating}
    /\ (player_stats[player1_id].rating - player_stats[player2_id].rating) % 200 = 0
    /\ LET done == UpdateRatingsAfterGame(player_stats, player1_id, player2_id, game_result)
       IN /\ player_stats' = done.players
          /\ last_call' = [op |-> "update_ratings_after_game", ok |-> done.ok,
                           player1_id |-> player1_id, player2_id |-> player2_id,
                           result |-> game_result,
                           rating1 |-> player_stats[player1_id].rating,
                           rating2 |-> player_stats[player2_id].rating]
    /\ UNCHANGED <<registered, calls>>
    /\ UNCHANGED player_frame

\* find_matchmaking_opponent(player_id, rating_tolerance)
FindMatchmakingOpponentOp(player_id, rating_tolerance) ==
    /\ \E q \in FindMatchmakingOpponent(player_stats, player_id, rating_tolerance) :
           last_call' = [op |-> "find_matchmaking_opponent", ok |-> q # NoPlayer,
                         ret |-> q, player_id |-> player_id,
                         rating_tolerance |-> rating_tolerance]
    /\ UNCHANGED <<player_stats, registered, calls>>
    /\ UNCHANGED player_frame

PlayerNext ==
    \/ \E name \in Members : RegisterPlayerOp(name)
    \/ \E player_id \in Members \cup {"p4"}, new_rating \in Ratings :
           UpdatePlayerRatingOp(player_id, new_rating)
    \/ \E player_id \in Members, status \in {"Away", "InGame", "Offline"} :
           SetStatusOp(player_id, status)
    \/ \E player1_id \in Members, player2_id \in Members,
          game_result \in {"PlayerWin", "OpponentWin", "Draw"} :
           UpdateRatingsAfterGameOp(player1_id, player2_id, game_result)
    \/ \E player_id \in Members, rating_tolerance \in Tolerances :
           FindMatchmakingOpponentOp(player_id, rating_tolerance)

PlayerSpec == PlayerInit /\ [][PlayerNext]_vars

\* The expected score of a player rated rating_a against rating_b that the
\* rating rule states: 1 / (1 + 10^((rating_b - rating_a) / 400))
StatedExpectedScore(rating_a, rating_b) == ExpectedScore(rating_b, rating_a)

\* C33: update_ratings_after_game for a decisive game changes the winner's
\* rating by round(32 * (1 - E_w)) and the loser's by round(32 * (0 - E_l)),
\* floored at 100; the winner's rating strictly increases and the loser's
\* strictly decreases, and two players rated 1500 end at (1516, 1484).
C33_DecisiveGameRatings ==
    (/\ last_call.op = "update_ratings_after_game"
     /\ last_call.ok
     /\ last_call.result # "Draw") =>
        LET player_won == last_call.result = "PlayerWin"
            winner == IF player_won THEN last_call.player1_id ELSE last_call.player2_id
            loser == IF player_won THEN last_call.player2_id ELSE last_call.player1_id
            winner_rating == IF player_won THEN last_call.rating1 ELSE last_call.rating2
            loser_rating == IF player_won THEN last_call.rating2 ELSE last_call.rating1
        IN /\ player_stats[winner].rating =
                  Max2(winner_rating
                       + RatingChange(2, StatedExpectedScore(winner_rating, loser_rating)),
                       RatingFloor)
           /\ player_stats[loser].rating =
                  Max2(loser_rating
                       + RatingChange(0, StatedExpectedScore(loser_rating, winner_rating)),
                       RatingFloor)
           /\ player_stats[winner].rating > winner_rating
           /\ player_stats[loser].rating < loser_rating
           /\ (winner_rating = 1500 /\ loser_rating = 1500) =>
                  /\ player_stats[winner].rating = 1516
                  /\ player_stats[loser].rating = 1484

\* The position of a player id in the order of the ids
IdRank(p) == CHOOSE i \in 1..3 : <<"p1", "p2", "p3">>[i] = p

\* C34: find_matchmaking_opponent(p, tol) returns, among the players other
\* than p that are available for a game and rated within tol of p, one at the
\* least rating distance, the one with the smallest id when several are; it
\* returns none when there is no such player.
C34_ClosestThenSmallestId ==
    last_call.op = "find_matchmaking_opponent" =>
        LET p == last_call.player_id
            found == IF player_stats[p] = NoStats THEN {}
                     ELSE Candidates(player_stats, p, last_call.rating_tolerance)
            closest == {q \in found :
                           \A r \in found :
                               Distance(player_stats, p, q) <= Distance(player_stats, p, r)}
        IN IF found = {} THEN last_call.ret = NoPlayer
           ELSE /\ last_call.ret \in closest
                /\ \A r \in closest : IdRank(last_call.ret) <= IdRank(r)

====
